---- MODULE Spec2Model ----
(***************************************************************************)
(* AwkwardForth virtual machine (src/libawkward/forth/ForthMachine.cpp):   *)
(* tokenizer, single-pass compiler and execution engine, as a state        *)
(* machine over one ForthMachineOf<T, I> instance.                         *)
(***************************************************************************)
EXTENDS Integers, Sequences, FiniteSets, TLC

(***************************************************************************)
(* Bounds of the model.                                                    *)
(***************************************************************************)
\* constructor argument stack_max_depth of every machine of the model
StackMaxDepth == 4
\* constructor argument recursion_max_depth of every machine of the model
RecursionMaxDepth == 4
\* instructions one invocation of internal_run may execute before the model
\* treats the invocation as one that does not return
MaxFuel == 24
\* length of a session: no public call is made once the clock has reached
\* MaxClock; a call takes one tick per instruction it counts (at least one),
\* and RestartTicks more when it starts the session over
MaxClock == 20
RestartTicks == 6

(***************************************************************************)
(* Instruction values.                                                     *)
(***************************************************************************)
READ_DIRECT == 1
READ_REPEATED == 2
READ_BIGENDIAN == 4
READ_MASK == 120
READ_BOOL == 8
READ_INT8 == 16
READ_INT16 == 24
READ_INT32 == 32
READ_INT64 == 40
READ_INTP == 48
READ_UINT8 == 56
READ_UINT16 == 64
READ_UINT32 == 72
READ_UINT64 == 80
READ_UINTP == 88
READ_FLOAT32 == 96
READ_FLOAT64 == 104

CODE_LITERAL == 0
CODE_HALT == 1
CODE_PAUSE == 2
CODE_IF == 3
CODE_IF_ELSE == 4
CODE_DO == 5
CODE_DO_STEP == 6
CODE_AGAIN == 7
CODE_UNTIL == 8
CODE_WHILE == 9
CODE_EXIT == 10
CODE_PUT == 11
CODE_INC == 12
CODE_GET == 13
CODE_LEN_INPUT == 14
CODE_POS == 15
CODE_END == 16
CODE_SEEK == 17
CODE_SKIP == 18
CODE_WRITE == 19
CODE_LEN_OUTPUT == 20
CODE_REWIND == 21
CODE_I == 22
CODE_J == 23
CODE_K == 24
CODE_DUP == 25
CODE_DROP == 26
CODE_SWAP == 27
CODE_OVER == 28
CODE_ROT == 29
CODE_NIP == 30
CODE_TUCK == 31
CODE_ADD == 32
CODE_SUB == 33
CODE_MUL == 34
CODE_DIV == 35
CODE_MOD == 36
CODE_DIVMOD == 37
CODE_NEGATE == 38
CODE_ADD1 == 39
CODE_SUB1 == 40
CODE_ABS == 41
CODE_MIN == 42
CODE_MAX == 43
CODE_EQ == 44
CODE_NE == 45
CODE_GT == 46
CODE_GE == 47
CODE_LT == 48
CODE_LE == 49
CODE_EQ0 == 50
CODE_INVERT == 51
CODE_AND == 52
CODE_OR == 53
CODE_XOR == 54
CODE_LSHIFT == 55
CODE_RSHIFT == 56
CODE_FALSE == 57
CODE_TRUE == 58
BOUND_DICTIONARY == 59

reserved_words_ ==
  { "(", ")", "\\", "\n", "", ":", ";", "recurse", "variable", "input",
    "output", "halt", "pause", "if", "then", "else", "do", "loop", "+loop",
    "begin", "again", "until", "while", "repeat", "exit", "!", "+!", "@",
    "len", "pos", "end", "seek", "skip", "<-", "stack", "rewind" }

input_parser_words_ ==
  { "?->", "b->", "h->", "i->", "q->", "n->", "B->", "H->", "I->", "Q->",
    "N->", "f->", "d->",
    "!h->", "!i->", "!q->", "!n->", "!H->", "!I->", "!Q->", "!N->", "!f->",
    "!d->",
    "#?->", "#b->", "#h->", "#i->", "#q->", "#n->", "#B->", "#H->", "#I->",
    "#Q->", "#N->", "#f->", "#d->",
    "#!h->", "#!i->", "#!q->", "#!n->", "#!H->", "#!I->", "#!Q->", "#!N->",
    "#!f->", "#!d->" }

output_dtype_words_ ==
  { "bool", "int8", "int16", "int32", "int64", "uint8", "uint16", "uint32",
    "uint64", "float32", "float64" }

generic_builtin_words_ ==
  [ w \in { "i", "j", "k", "dup", "drop", "swap", "over", "rot", "nip",
            "tuck", "+", "-", "*", "/", "mod", "/mod", "negate", "1+", "1-",
            "abs", "min", "max", "=", "<>", ">", ">=", "<", "<=", "0=",
            "invert", "and", "or", "xor", "lshift", "rshift", "false",
            "true" } |->
      CASE w = "i" -> CODE_I [] w = "j" -> CODE_J [] w = "k" -> CODE_K
        [] w = "dup" -> CODE_DUP [] w = "drop" -> CODE_DROP
        [] w = "swap" -> CODE_SWAP [] w = "over" -> CODE_OVER
        [] w = "rot" -> CODE_ROT [] w = "nip" -> CODE_NIP
        [] w = "tuck" -> CODE_TUCK [] w = "+" -> CODE_ADD
        [] w = "-" -> CODE_SUB [] w = "*" -> CODE_MUL [] w = "/" -> CODE_DIV
        [] w = "mod" -> CODE_MOD [] w = "/mod" -> CODE_DIVMOD
        [] w = "negate" -> CODE_NEGATE [] w = "1+" -> CODE_ADD1
        [] w = "1-" -> CODE_SUB1 [] w = "abs" -> CODE_ABS
        [] w = "min" -> CODE_MIN [] w = "max" -> CODE_MAX
        [] w = "=" -> CODE_EQ [] w = "<>" -> CODE_NE [] w = ">" -> CODE_GT
        [] w = ">=" -> CODE_GE [] w = "<" -> CODE_LT [] w = "<=" -> CODE_LE
        [] w = "0=" -> CODE_EQ0 [] w = "invert" -> CODE_INVERT
        [] w = "and" -> CODE_AND [] w = "or" -> CODE_OR
        [] w = "xor" -> CODE_XOR [] w = "lshift" -> CODE_LSHIFT
        [] w = "rshift" -> CODE_RSHIFT [] w = "false" -> CODE_FALSE
        [] w = "true" -> CODE_TRUE ]

(***************************************************************************)
(* Strings: source_[i] and source_.substr(start, n), 0-based as in C++.    *)
(***************************************************************************)
CharAt(s, i) == SubSeq(s, i + 1, i + 1)

substr(s, start, n) == SubSeq(s, start + 1, start + n)

Contains(seq, x) == \E n \in 1..Len(seq) : seq[n] = x

\* index (0-based) of the first element equal to x, Len(seq) when absent
IndexOf(seq, x) ==
  IF Contains(seq, x)
    THEN (CHOOSE n \in 1..Len(seq) :
            seq[n] = x /\ \A k \in 1..(n - 1) : seq[k] # x) - 1
    ELSE Len(seq)

(***************************************************************************)
(* tokenize: one pass over source_, state as the locals of the C++ loop.   *)
(***************************************************************************)
RECURSIVE tokenize_loop(_, _)
tokenize_loop(src, t) ==
  IF t.stop >= Len(src)
    THEN IF t.full
           THEN [t EXCEPT
                   !.tokenized = Append(@, substr(src, t.start, t.stop - t.start)),
                   !.linecol = Append(@, <<t.line, t.colstart>>)]
           ELSE t
    ELSE
      LET current == CharAt(src, t.stop)
          flushed ==
            IF t.full
              THEN [t EXCEPT
                      !.tokenized = Append(@, substr(src, t.start, t.stop - t.start)),
                      !.linecol = Append(@, <<t.line, t.colstart>>)]
              ELSE t
          t1 ==
            IF current \in {" ", "\r", "\t", "\f"}
              THEN [flushed EXCEPT !.start = t.stop, !.full = FALSE,
                                   !.colstart = t.colstop]
            ELSE IF current = "\n"
              THEN [flushed EXCEPT
                      !.tokenized = Append(@, substr(src, t.stop, 1)),
                      !.linecol = Append(@, <<t.line, t.colstart>>),
                      !.start = t.stop, !.full = FALSE,
                      !.line = t.line + 1, !.colstart = 0, !.colstop = 0]
            ELSE IF ~t.full
              THEN [t EXCEPT !.start = t.stop, !.colstart = t.colstop,
                             !.full = TRUE]
              ELSE t
      IN tokenize_loop(src, [t1 EXCEPT !.stop = t1.stop + 1,
                                       !.colstop = t1.colstop + 1])

tokenize(src) ==
  tokenize_loop(src, [start |-> 0, stop |-> 0, full |-> FALSE, line |-> 1,
                      colstart |-> 0, colstop |-> 0,
                      tokenized |-> <<>>, linecol |-> <<>>])

(***************************************************************************)
(* is_integer: std::stoul in base 10, or base 16 after a "0x" prefix.      *)
(* stoul accepts an optional sign and the longest prefix of digits, and    *)
(* fails only when there is no digit at all.                               *)
(***************************************************************************)
DigitValue(c) ==
  CASE c = "0" -> 0 [] c = "1" -> 1 [] c = "2" -> 2 [] c = "3" -> 3
    [] c = "4" -> 4 [] c = "5" -> 5 [] c = "6" -> 6 [] c = "7" -> 7
    [] c = "8" -> 8 [] c = "9" -> 9
    [] c \in {"a", "A"} -> 10 [] c \in {"b", "B"} -> 11
    [] c \in {"c", "C"} -> 12 [] c \in {"d", "D"} -> 13
    [] c \in {"e", "E"} -> 14 [] c \in {"f", "F"} -> 15
    [] OTHER -> 99

RECURSIVE stoul_digits(_, _, _, _)
\* [n |-> digits consumed, value |-> their value]
stoul_digits(word, k, base, acc) ==
  IF k < Len(word) /\ DigitValue(CharAt(word, k)) < base
    THEN LET r == stoul_digits(word, k + 1, base,
                               acc * base + DigitValue(CharAt(word, k)))
         IN [n |-> r.n + 1, value |-> r.value]
    ELSE [n |-> 0, value |-> acc]

stoul(word, base) ==
  LET signed == Len(word) >= 1 /\ CharAt(word, 0) \in {"-", "+"}
      first == IF signed THEN 1 ELSE 0
      r == stoul_digits(word, first, base, 0)
  IN [ok |-> r.n > 0,
      value |-> IF signed /\ CharAt(word, 0) = "-" THEN -r.value ELSE r.value]

is_integer(word) ==
  IF Len(word) >= 2 /\ substr(word, 0, 2) = "0x"
    THEN stoul(substr(word, 2, Len(word) - 2), 16)
    ELSE stoul(word, 10)

(***************************************************************************)
(* Compiler.  The compile state c carries the members parse() mutates      *)
(* (symbol tables) and its by-reference argument dictionary; c.ok = FALSE  *)
(* stands for a thrown std::invalid_argument.                              *)
(***************************************************************************)
Tok(tokenized, pos) == tokenized[pos + 1]

is_variable(c, word) == Contains(c.variable_names_, word)

is_input(c, word) == Contains(c.input_names_, word)

is_output(c, word) == Contains(c.output_names_, word)

is_reserved(word) ==
  \/ word \in reserved_words_
  \/ word \in input_parser_words_
  \/ word \in output_dtype_words_
  \/ word \in DOMAIN generic_builtin_words_

is_defined(c, word) == Contains(c.dictionary_names_, word)

\* the test guarding every declaration of a name
name_is_taken(c, name) ==
  \/ is_input(c, name) \/ is_output(c, name) \/ is_variable(c, name)
  \/ is_defined(c, name) \/ is_reserved(name) \/ is_integer(name).ok

\* the nesting scans of parse(): each returns the final substop, or -1 when
\* the scan runs into stop (the "missing its closing ..." errors)
RECURSIVE scan_nested(_, _, _, _, _, _)
scan_nested(tokenized, substop, stop, nesting, opening, closing) ==
  IF nesting <= 0 THEN substop
  ELSE LET s == substop + 1 IN
    IF s >= stop THEN -1
    ELSE scan_nested(tokenized, s, stop,
                     IF Tok(tokenized, s) \in opening THEN nesting + 1
                     ELSE IF Tok(tokenized, s) \in closing THEN nesting - 1
                     ELSE nesting,
                     opening, closing)

RECURSIVE scan_if(_, _, _, _, _)
scan_if(tokenized, substop, stop, nesting, subelse) ==
  IF nesting <= 0 THEN [substop |-> substop, subelse |-> subelse]
  ELSE LET s == substop + 1 IN
    IF s >= stop THEN [substop |-> -1, subelse |-> subelse]
    ELSE IF Tok(tokenized, s) = "if"
      THEN scan_if(tokenized, s, stop, nesting + 1, subelse)
    ELSE IF Tok(tokenized, s) = "then"
      THEN scan_if(tokenized, s, stop, nesting - 1, subelse)
    ELSE IF Tok(tokenized, s) = "else" /\ nesting = 1
      THEN scan_if(tokenized, s, stop, nesting, s)
    ELSE scan_if(tokenized, s, stop, nesting, subelse)

RECURSIVE scan_do(_, _, _, _, _)
scan_do(tokenized, substop, stop, nesting, is_step) ==
  IF nesting <= 0 THEN [substop |-> substop, is_step |-> is_step]
  ELSE LET s == substop + 1 IN
    IF s >= stop THEN [substop |-> -1, is_step |-> is_step]
    ELSE IF Tok(tokenized, s) = "do"
      THEN scan_do(tokenized, s, stop, nesting + 1, is_step)
    ELSE IF Tok(tokenized, s) = "loop"
      THEN scan_do(tokenized, s, stop, nesting - 1, is_step)
    ELSE IF Tok(tokenized, s) = "+loop"
      THEN scan_do(tokenized, s, stop, nesting - 1, is_step \/ nesting = 1)
    ELSE scan_do(tokenized, s, stop, nesting, is_step)

RECURSIVE scan_begin(_, _, _, _, _, _)
scan_begin(tokenized, substop, stop, nesting, is_again, subwhile) ==
  IF nesting <= 0
    THEN [substop |-> substop, is_again |-> is_again, subwhile |-> subwhile]
  ELSE LET s == substop + 1 IN
    IF s >= stop
      THEN [substop |-> -1, is_again |-> is_again, subwhile |-> subwhile]
    ELSE IF Tok(tokenized, s) = "begin"
      THEN scan_begin(tokenized, s, stop, nesting + 1, is_again, subwhile)
    ELSE IF Tok(tokenized, s) = "until"
      THEN scan_begin(tokenized, s, stop, nesting - 1, is_again, subwhile)
    ELSE IF Tok(tokenized, s) = "again"
      THEN scan_begin(tokenized, s, stop, nesting - 1,
                      is_again \/ nesting = 1, subwhile)
    ELSE IF Tok(tokenized, s) = "while"
      THEN LET r == scan_nested(tokenized, s, stop, 1, {"while"}, {"repeat"})
           IN IF r = -1
                THEN [substop |-> -1, is_again |-> is_again,
                      subwhile |-> subwhile]
                ELSE scan_begin(tokenized, r, stop, nesting - 1, is_again,
                                IF nesting = 1 THEN s ELSE subwhile)
    ELSE scan_begin(tokenized, s, stop, nesting, is_again, subwhile)

\* '\ ... \n' comments: first position at or after substop holding "\n"
RECURSIVE scan_line(_, _, _)
scan_line(tokenized, substop, stop) ==
  IF substop < stop /\ Tok(tokenized, substop) # "\n"
    THEN scan_line(tokenized, substop + 1, stop)
    ELSE substop

\* the type letter of a typed-read word
parser_type(ch) ==
  CASE ch = "?" -> READ_BOOL [] ch = "b" -> READ_INT8
    [] ch = "h" -> READ_INT16 [] ch = "i" -> READ_INT32
    [] ch = "q" -> READ_INT64 [] ch = "n" -> READ_INTP
    [] ch = "B" -> READ_UINT8 [] ch = "H" -> READ_UINT16
    [] ch = "I" -> READ_UINT32 [] ch = "Q" -> READ_UINT64
    [] ch = "N" -> READ_UINTP [] ch = "f" -> READ_FLOAT32
    [] ch = "d" -> READ_FLOAT64 [] OTHER -> 0

\* the word without its first character when that character is ch
strip_char(word, ch) ==
  IF Len(word) # 0 /\ CharAt(word, 0) = ch
    THEN substr(word, 1, Len(word) - 1) ELSE word

\* the typed-read word after an input name, [#][!]<type letter>->, with its
\* prefixes taken off: flags is the bytecode so far, word what is left
parser_arrow(flags, word) ==
  IF Len(word) = 0 THEN [ok |-> FALSE, bytecode |-> flags]
  ELSE [ok |-> parser_type(CharAt(word, 0)) # 0
                 /\ substr(word, 1, Len(word) - 1) = "->",
        bytecode |-> flags + parser_type(CharAt(word, 0))]

\* parser_bigendian with the '!' taken off the word and not recorded
parser_bigendian_dropped(flags, word) ==
  parser_arrow(flags, strip_char(word, "!"))

parser_bigendian(flags, word) ==
  parser_arrow(flags + (IF word = strip_char(word, "!")
                          THEN 0 ELSE READ_BIGENDIAN),
               strip_char(word, "!"))

parser_code(word) ==
  parser_bigendian(IF word = strip_char(word, "#") THEN 0 ELSE READ_REPEATED,
                   strip_char(word, "#"))

\* a new, still empty, segment at the end of the dictionary
new_segment(c) == [c EXCEPT !.dictionary = Append(@, <<>>)]

\* set_segment storing the body in the last segment of the dictionary
set_segment_at_back(c, bytecode, body) ==
  [c EXCEPT !.dictionary[Len(c.dictionary)] = body]

set_segment(c, bytecode, body) ==
  [c EXCEPT !.dictionary[bytecode - BOUND_DICTIONARY + 1] = body]

\* index_word_misplaced asking one enclosing 'do' of every index word
index_word_misplaced_at_top(word, dodepth) ==
  word \in {"i", "j", "k"} /\ dodepth < 1

\* the builtin word is a loop index with too few 'do' around it
index_word_misplaced(word, dodepth) ==
  \/ word = "i" /\ dodepth < 1
  \/ word = "j" /\ dodepth < 2
  \/ word = "k" /\ dodepth < 3

RECURSIVE parse(_, _, _, _, _, _, _, _)
parse(defn, tokenized, pos, stop, bytecodes, c, exitdepth, dodepth) ==
  LET Fail == [bytecodes |-> bytecodes, c |-> [c EXCEPT !.ok = FALSE]]
      Go(newpos, newcodes, newc) ==
        parse(defn, tokenized, newpos, stop, newcodes, newc, exitdepth, dodepth)
      Sub(name, substart, substop, cc, ed, dd) ==
        parse(name, tokenized, substart, substop, <<>>, cc, ed, dd)
      word == Tok(tokenized, pos)
      next == IF pos + 1 < stop THEN Tok(tokenized, pos + 1) ELSE ""
      has_next == pos + 1 < stop
  IN
  IF ~c.ok \/ pos >= stop THEN [bytecodes |-> bytecodes, c |-> c]
  ELSE IF word = "(" THEN
    LET substop == scan_nested(tokenized, pos, stop, 1, {"("}, {")"})
    IN IF substop = -1 THEN Fail ELSE Go(substop + 1, bytecodes, c)
  ELSE IF word = "\\" THEN
    Go(scan_line(tokenized, pos, stop) + 1, bytecodes, c)
  ELSE IF word = "\n" \/ word = "" THEN Go(pos + 1, bytecodes, c)
  ELSE IF word = ":" THEN
    IF ~has_next \/ next = ";" THEN Fail
    ELSE IF name_is_taken(c, next) THEN Fail
    ELSE
      LET substop == scan_nested(tokenized, pos + 1, stop, 1, {":"}, {";"})
          bytecode == Len(c.dictionary) + BOUND_DICTIONARY
          c1 == new_segment(
                  [c EXCEPT !.dictionary_names_ = Append(@, next),
                            !.dictionary_bytecodes_ = Append(@, bytecode)])
          r == Sub(next, pos + 2, substop, c1, 0, 0)
      IN IF substop = -1 THEN Fail
         ELSE Go(substop + 1, bytecodes, set_segment(r.c, bytecode, r.bytecodes))
  ELSE IF word = "recurse" THEN
    IF defn = "" THEN Fail
    ELSE Go(pos + 1,
            bytecodes \o
              SelectSeq(c.dictionary_bytecodes_,
                        LAMBDA b : c.dictionary_names_[
                                     IndexOf(c.dictionary_bytecodes_, b) + 1] = defn),
            c)
  ELSE IF word = "variable" THEN
    IF ~has_next THEN Fail
    ELSE IF name_is_taken(c, next) THEN Fail
    ELSE Go(pos + 2, bytecodes, [c EXCEPT !.variable_names_ = Append(@, next)])
  ELSE IF word = "input" THEN
    IF ~has_next THEN Fail
    ELSE IF name_is_taken(c, next) THEN Fail
    ELSE Go(pos + 2, bytecodes, [c EXCEPT !.input_names_ = Append(@, next)])
  ELSE IF word = "output" THEN
    IF pos + 2 >= stop THEN Fail
    ELSE IF name_is_taken(c, next) THEN Fail
    ELSE IF Tok(tokenized, pos + 2) \notin output_dtype_words_ THEN Fail
    ELSE Go(pos + 3, bytecodes,
            [c EXCEPT !.output_names_ = Append(@, next),
                      !.output_dtypes_ = Append(@, Tok(tokenized, pos + 2))])
  ELSE IF word = "halt" THEN Go(pos + 1, Append(bytecodes, CODE_HALT), c)
  ELSE IF word = "pause" THEN Go(pos + 1, Append(bytecodes, CODE_PAUSE), c)
  ELSE IF word = "if" THEN
    LET s == scan_if(tokenized, pos, stop, 1, -1)
        bytecode1 == Len(c.dictionary) + BOUND_DICTIONARY
        r1 == Sub(defn, pos + 1,
                  IF s.subelse = -1 THEN s.substop ELSE s.subelse,
                  new_segment(c), exitdepth + 1, dodepth)
        c1 == set_segment(r1.c, bytecode1, r1.bytecodes)
        bytecode2 == Len(c1.dictionary) + BOUND_DICTIONARY
        r2 == Sub(defn, s.subelse + 1, s.substop, new_segment(c1),
                  exitdepth + 1, dodepth)
        c2 == set_segment(r2.c, bytecode2, r2.bytecodes)
    IN IF s.substop = -1 THEN Fail
       ELSE IF s.subelse = -1
         THEN IF ~r1.c.ok THEN [bytecodes |-> bytecodes, c |-> r1.c]
              ELSE Go(s.substop + 1, bytecodes \o <<CODE_IF, bytecode1>>, c1)
       ELSE IF ~r1.c.ok THEN [bytecodes |-> bytecodes, c |-> r1.c]
       ELSE IF ~r2.c.ok THEN [bytecodes |-> bytecodes, c |-> r2.c]
       ELSE Go(s.substop + 1,
               bytecodes \o <<CODE_IF_ELSE, bytecode1, bytecode2>>, c2)
  ELSE IF word = "do" THEN
    LET s == scan_do(tokenized, pos, stop, 1, FALSE)
        bytecode == Len(c.dictionary) + BOUND_DICTIONARY
        r == Sub(defn, pos + 1, s.substop, new_segment(c),
                 exitdepth + 1, dodepth + 1)
    IN IF s.substop = -1 THEN Fail
       ELSE IF ~r.c.ok THEN [bytecodes |-> bytecodes, c |-> r.c]
       ELSE Go(s.substop + 1,
               bytecodes \o
                 <<IF s.is_step THEN CODE_DO_STEP ELSE CODE_DO, bytecode>>,
               set_segment(r.c, bytecode, r.bytecodes))
  ELSE IF word = "begin" THEN
    LET s == scan_begin(tokenized, pos, stop, 1, FALSE, -1)
        bytecode1 == Len(c.dictionary) + BOUND_DICTIONARY
        r1 == Sub(defn, pos + 1,
                  IF s.is_again \/ s.subwhile = -1 THEN s.substop
                                                  ELSE s.subwhile,
                  new_segment(c), exitdepth + 1, dodepth)
        c1 == set_segment(r1.c, bytecode1, r1.bytecodes)
        bytecode2 == Len(c1.dictionary) + BOUND_DICTIONARY
        r2 == Sub(defn, s.subwhile + 1, s.substop, new_segment(c1),
                  exitdepth + 1, dodepth)
        c2 == set_segment(r2.c, bytecode2, r2.bytecodes)
    IN IF s.substop = -1 THEN Fail
       ELSE IF ~r1.c.ok THEN [bytecodes |-> bytecodes, c |-> r1.c]
       ELSE IF s.is_again
         THEN Go(s.substop + 1, bytecodes \o <<bytecode1, CODE_AGAIN>>, c1)
       ELSE IF s.subwhile = -1
         THEN Go(s.substop + 1, bytecodes \o <<bytecode1, CODE_UNTIL>>, c1)
       ELSE IF ~r2.c.ok THEN [bytecodes |-> bytecodes, c |-> r2.c]
       ELSE Go(s.substop + 1,
               bytecodes \o <<bytecode1, CODE_WHILE, bytecode2>>, c2)
  ELSE IF word = "exit" THEN
    Go(pos + 1, bytecodes \o <<CODE_EXIT, exitdepth>>, c)
  ELSE IF is_variable(c, word) THEN
    LET variable_index == IndexOf(c.variable_names_, word) IN
    IF has_next /\ next = "!"
      THEN Go(pos + 2, bytecodes \o <<CODE_PUT, variable_index>>, c)
    ELSE IF has_next /\ next = "+!"
      THEN Go(pos + 2, bytecodes \o <<CODE_INC, variable_index>>, c)
    ELSE IF has_next /\ next = "@"
      THEN Go(pos + 2, bytecodes \o <<CODE_GET, variable_index>>, c)
    ELSE Fail
  ELSE IF is_input(c, word) THEN
    LET input_index == IndexOf(c.input_names_, word)
        pc == parser_code(next)
        target == IF pos + 2 < stop THEN Tok(tokenized, pos + 2) ELSE ""
        has_target == pos + 2 < stop
    IN
    IF has_next /\ next = "len"
      THEN Go(pos + 2, bytecodes \o <<CODE_LEN_INPUT, input_index>>, c)
    ELSE IF has_next /\ next = "pos"
      THEN Go(pos + 2, bytecodes \o <<CODE_POS, input_index>>, c)
    ELSE IF has_next /\ next = "end"
      THEN Go(pos + 2, bytecodes \o <<CODE_END, input_index>>, c)
    ELSE IF has_next /\ next = "seek"
      THEN Go(pos + 2, bytecodes \o <<CODE_SEEK, input_index>>, c)
    ELSE IF has_next /\ next = "skip"
      THEN Go(pos + 2, bytecodes \o <<CODE_SKIP, input_index>>, c)
    ELSE IF has_next THEN
      IF ~pc.ok THEN Fail
      ELSE IF has_target /\ target = "stack"
        THEN Go(pos + 3, bytecodes \o <<-(pc.bytecode) - 1, input_index>>, c)
      ELSE IF has_target /\ is_output(c, target)
        THEN Go(pos + 3,
                bytecodes \o <<-(pc.bytecode + READ_DIRECT) - 1, input_index,
                               IndexOf(c.output_names_, target)>>, c)
      ELSE Fail
    ELSE Fail
  ELSE IF is_output(c, word) THEN
    LET output_index == IndexOf(c.output_names_, word) IN
    IF has_next /\ next = "<-"
      THEN IF pos + 2 < stop /\ Tok(tokenized, pos + 2) = "stack"
             THEN Go(pos + 3, bytecodes \o <<CODE_WRITE, output_index>>, c)
             ELSE Fail
    ELSE IF has_next /\ next = "len"
      THEN Go(pos + 2, bytecodes \o <<CODE_LEN_OUTPUT, output_index>>, c)
    ELSE IF has_next /\ next = "rewind"
      THEN Go(pos + 2, bytecodes \o <<CODE_REWIND, output_index>>, c)
    ELSE Fail
  ELSE IF word \in DOMAIN generic_builtin_words_ THEN
    IF index_word_misplaced(word, dodepth)
      THEN Fail
      ELSE Go(pos + 1, Append(bytecodes, generic_builtin_words_[word]), c)
  ELSE IF is_defined(c, word) THEN
    Go(pos + 1,
       Append(bytecodes,
              c.dictionary_bytecodes_[IndexOf(c.dictionary_names_, word) + 1]),
       c)
  ELSE IF is_integer(word).ok THEN
    Go(pos + 1, bytecodes \o <<CODE_LITERAL, is_integer(word).value>>, c)
  ELSE Fail

RECURSIVE flatten(_)
flatten(dictionary) ==
  IF dictionary = <<>> THEN <<>>
  ELSE Head(dictionary) \o flatten(Tail(dictionary))

RECURSIVE segment_offsets_of_lengths(_, _)
\* segment_offsets with the size of each segment alone pushed, in place of
\* the size of bytecodes_ so far
segment_offsets_of_lengths(dictionary, sofar) ==
  IF dictionary = <<>> THEN <<>>
  ELSE <<Len(Head(dictionary))>>
       \o segment_offsets_of_lengths(Tail(dictionary), sofar)

RECURSIVE segment_offsets(_, _)
segment_offsets(dictionary, sofar) ==
  IF dictionary = <<>> THEN <<>>
  ELSE <<sofar + Len(Head(dictionary))>>
       \o segment_offsets(Tail(dictionary), sofar + Len(Head(dictionary)))

\* what compile() stores of the outcome r of parsing the whole source, the
\* main segment being segment 0 of the dictionary
compiled(r, dictionary) ==
  [ok |-> r.c.ok,
   bytecodes_ |-> flatten(dictionary),
   bytecodes_offsets_ |-> <<0>> \o segment_offsets(dictionary, 0),
   dictionary_names_ |-> r.c.dictionary_names_,
   dictionary_bytecodes_ |-> r.c.dictionary_bytecodes_,
   variable_names_ |-> r.c.variable_names_,
   input_names_ |-> r.c.input_names_,
   output_names_ |-> r.c.output_names_,
   output_dtypes_ |-> r.c.output_dtypes_]

main_segment(r) == compiled(r, [r.c.dictionary EXCEPT ![1] = r.bytecodes])

\* compile(tokenized, linecol): the compiled program of a token vector
compile(tokenized) ==
  main_segment(parse("", tokenized, 0, Len(tokenized), <<>>,
                     [dictionary |-> << <<>> >>, dictionary_names_ |-> <<>>,
                      dictionary_bytecodes_ |-> <<>>, variable_names_ |-> <<>>,
                      input_names_ |-> <<>>, output_names_ |-> <<>>,
                      output_dtypes_ |-> <<>>, ok |-> TRUE],
                     0, 0))

(***************************************************************************)
(* decompiled(): the source text rebuilt from the compiled program.  A     *)
(* result is [k |-> "text", out |-> the characters], k being "throw" where *)
(* the code throws and "undefined" where it reads a vector out of range.   *)
(***************************************************************************)
segment_nonempty(p, segment_position) ==
  p.bytecodes_offsets_[segment_position + 1]
    # p.bytecodes_offsets_[segment_position + 2]

bytecodes_per_instruction(p, bytecode_position) ==
  LET bytecode == p.bytecodes_[bytecode_position + 1]
      next_bytecode == IF bytecode_position + 1 < Len(p.bytecodes_)
                         THEN p.bytecodes_[bytecode_position + 2] ELSE 0
  IN IF bytecode < 0
       THEN (IF (-bytecode - 1) % 2 = 1 THEN 3 ELSE 2)
     ELSE IF next_bytecode = CODE_AGAIN \/ next_bytecode = CODE_UNTIL THEN 2
     ELSE IF next_bytecode = CODE_WHILE THEN 3
     ELSE IF bytecode = CODE_IF_ELSE THEN 3
     ELSE IF bytecode \in { CODE_LITERAL, CODE_IF, CODE_DO, CODE_DO_STEP,
                            CODE_EXIT, CODE_PUT, CODE_INC, CODE_GET,
                            CODE_LEN_INPUT, CODE_POS, CODE_END, CODE_SEEK,
                            CODE_SKIP, CODE_WRITE, CODE_LEN_OUTPUT,
                            CODE_REWIND } THEN 2
     ELSE 1

RECURSIVE joined(_)
\* operator+ over the parts: their concatenation, or the first part that
\* is not a text
joined(parts) ==
  IF parts = <<>> THEN [k |-> "text", out |-> ""]
  ELSE IF Head(parts).k # "text" THEN Head(parts)
  ELSE LET rest == joined(Tail(parts))
       IN IF rest.k # "text" THEN rest
          ELSE [k |-> "text", out |-> Head(parts).out \o rest.out]

RECURSIVE decompiled_segment(_, _, _, _)
RECURSIVE decompiled_at(_, _, _)

\* the loop of decompiled_segment from bytecode_position on
decompiled_segment(p, segment_position, indent, bytecode_position) ==
  IF segment_position < 0
       \/ segment_position + 1 >= Len(p.bytecodes_offsets_)
    THEN [k |-> "throw", out |-> ""]
  ELSE IF ~(bytecode_position < p.bytecodes_offsets_[segment_position + 2])
    THEN [k |-> "text", out |-> ""]
  ELSE joined(<< [k |-> "text",
                  out |-> IF bytecode_position
                               # p.bytecodes_offsets_[segment_position + 1]
                            THEN indent ELSE ""],
                 decompiled_at(p, bytecode_position, indent),
                 [k |-> "text", out |-> "\n"],
                 decompiled_segment(p, segment_position, indent,
                     bytecode_position
                       + bytecodes_per_instruction(p, bytecode_position)) >>)

decompiled_at(p, bytecode_position, indent) ==
  LET Text(s) == [k |-> "text", out |-> s]
      Beyond == [k |-> "undefined", out |-> ""]
      bytecode == p.bytecodes_[bytecode_position + 1]
      next_bytecode == IF bytecode_position + 1 < Len(p.bytecodes_)
                         THEN p.bytecodes_[bytecode_position + 2] ELSE 0
      \* bytecodes_[bytecode_position + n] - BOUND_DICTIONARY
      Segment(n) == p.bytecodes_[bytecode_position + n + 1] - BOUND_DICTIONARY
      HasOperand(n) == bytecode_position + n < Len(p.bytecodes_)
      \* (segment_nonempty(body) ? indent + "  " : "")
      \*   + decompiled_segment(body, indent + "  ") + indent + closing
      Body(body, closing) ==
        IF body < 0 \/ body + 1 >= Len(p.bytecodes_offsets_) THEN Beyond
        ELSE joined(<< Text(IF segment_nonempty(p, body)
                              THEN indent \o "  " ELSE ""),
                       decompiled_segment(p, body, indent \o "  ",
                                          p.bytecodes_offsets_[body + 1]),
                       Text(indent \o closing) >>)
      \* names[bytecodes_[bytecode_position + 1]] + rest
      Named(names, rest) ==
        IF ~HasOperand(1) THEN Beyond
        ELSE IF p.bytecodes_[bytecode_position + 2] + 1 \notin 1..Len(names)
          THEN Beyond
        ELSE Text(names[p.bytecodes_[bytecode_position + 2] + 1] \o rest)
      flags == -bytecode - 1
      type == ((flags \div 8) % 16) * 8
      arrow ==
        (IF (flags \div 2) % 2 = 1 THEN "#" ELSE "")
          \o (IF (flags \div 4) % 2 = 1 THEN "!" ELSE "")
          \o (CASE type = READ_BOOL -> "?->" [] type = READ_INT8 -> "b->"
                [] type = READ_INT16 -> "h->" [] type = READ_INT32 -> "i->"
                [] type = READ_INT64 -> "q->" [] type = READ_INTP -> "n->"
                [] type = READ_UINT8 -> "B->" [] type = READ_UINT16 -> "H->"
                [] type = READ_UINT32 -> "I->" [] type = READ_UINT64 -> "Q->"
                [] type = READ_UINTP -> "N->" [] type = READ_FLOAT32 -> "f->"
                [] type = READ_FLOAT64 -> "d->" [] OTHER -> "")
      word ==
        CASE bytecode = CODE_HALT -> "halt" [] bytecode = CODE_PAUSE -> "pause"
          [] bytecode = CODE_EXIT -> "exit"
          [] bytecode = CODE_I -> "i" [] bytecode = CODE_J -> "j"
          [] bytecode = CODE_K -> "k" [] bytecode = CODE_DUP -> "dup"
          [] bytecode = CODE_DROP -> "drop" [] bytecode = CODE_SWAP -> "swap"
          [] bytecode = CODE_OVER -> "over" [] bytecode = CODE_ROT -> "rot"
          [] bytecode = CODE_NIP -> "nip" [] bytecode = CODE_TUCK -> "tuck"
          [] bytecode = CODE_ADD -> "+" [] bytecode = CODE_SUB -> "-"
          [] bytecode = CODE_MUL -> "*" [] bytecode = CODE_DIV -> "/"
          [] bytecode = CODE_MOD -> "mod" [] bytecode = CODE_DIVMOD -> "/mod"
          [] bytecode = CODE_NEGATE -> "negate" [] bytecode = CODE_ADD1 -> "1+"
          [] bytecode = CODE_SUB1 -> "1-" [] bytecode = CODE_ABS -> "abs"
          [] bytecode = CODE_MIN -> "min" [] bytecode = CODE_MAX -> "max"
          [] bytecode = CODE_EQ -> "=" [] bytecode = CODE_NE -> "<>"
          [] bytecode = CODE_GT -> ">" [] bytecode = CODE_GE -> ">="
          [] bytecode = CODE_LT -> "<" [] bytecode = CODE_LE -> "<="
          [] bytecode = CODE_EQ0 -> "0=" [] bytecode = CODE_INVERT -> "invert"
          [] bytecode = CODE_AND -> "and" [] bytecode = CODE_OR -> "or"
          [] bytecode = CODE_XOR -> "xor" [] bytecode = CODE_LSHIFT -> "lshift"
          [] bytecode = CODE_RSHIFT -> "rshift"
          [] bytecode = CODE_FALSE -> "false" [] bytecode = CODE_TRUE -> "true"
          [] OTHER -> "(unrecognized bytecode " \o ToString(bytecode) \o ")"
  IN IF bytecode_position < 0 \/ bytecode_position >= Len(p.bytecodes_)
       THEN [k |-> "throw", out |-> ""]
     ELSE IF bytecode < 0 THEN
       joined(<< Named(p.input_names_, " " \o arrow \o " "),
                 IF flags % 2 = 1
                   THEN IF ~HasOperand(2) THEN Beyond
                        ELSE IF p.bytecodes_[bytecode_position + 3] + 1
                                  \notin 1..Len(p.output_names_) THEN Beyond
                        ELSE Text(p.output_names_[
                                    p.bytecodes_[bytecode_position + 3] + 1])
                   ELSE Text("stack") >>)
     ELSE IF next_bytecode = CODE_AGAIN THEN
       joined(<< Text("begin\n"), Body(bytecode - BOUND_DICTIONARY, "again") >>)
     ELSE IF next_bytecode = CODE_UNTIL THEN
       joined(<< Text("begin\n"), Body(bytecode - BOUND_DICTIONARY, "until") >>)
     ELSE IF next_bytecode = CODE_WHILE THEN
       IF ~HasOperand(2) THEN Beyond
       ELSE joined(<< Text("begin\n"),
                      Body(bytecode - BOUND_DICTIONARY, "while\n"),
                      Body(Segment(2), "repeat") >>)
     ELSE IF bytecode >= BOUND_DICTIONARY THEN
       IF Contains(p.dictionary_bytecodes_, bytecode)
         THEN Text(p.dictionary_names_[
                     IndexOf(p.dictionary_bytecodes_, bytecode) + 1])
         ELSE Text("(anonymous segment at "
                     \o ToString(bytecode - BOUND_DICTIONARY) \o ")")
     ELSE IF bytecode = CODE_LITERAL THEN
       IF ~HasOperand(1) THEN Beyond
       ELSE Text(ToString(p.bytecodes_[bytecode_position + 2]))
     ELSE IF bytecode = CODE_IF THEN
       IF ~HasOperand(1) THEN Beyond
       ELSE joined(<< Text("if\n"), Body(Segment(1), "then") >>)
     ELSE IF bytecode = CODE_IF_ELSE THEN
       IF ~HasOperand(2) THEN Beyond
       ELSE joined(<< Text("if\n"), Body(Segment(1), "else\n"),
                      Body(Segment(2), "then") >>)
     ELSE IF bytecode = CODE_DO THEN
       IF ~HasOperand(1) THEN Beyond
       ELSE joined(<< Text("do\n"), Body(Segment(1), "loop") >>)
     ELSE IF bytecode = CODE_DO_STEP THEN
       IF ~HasOperand(1) THEN Beyond
       ELSE joined(<< Text("do\n"), Body(Segment(1), "+loop") >>)
     ELSE IF bytecode = CODE_PUT THEN Named(p.variable_names_, " !")
     ELSE IF bytecode = CODE_INC THEN Named(p.variable_names_, " +!")
     ELSE IF bytecode = CODE_GET THEN Named(p.variable_names_, " @")
     ELSE IF bytecode = CODE_LEN_INPUT THEN Named(p.input_names_, " len")
     ELSE IF bytecode = CODE_POS THEN Named(p.input_names_, " pos")
     ELSE IF bytecode = CODE_END THEN Named(p.input_names_, " end")
     ELSE IF bytecode = CODE_SEEK THEN Named(p.input_names_, " seek")
     ELSE IF bytecode = CODE_SKIP THEN Named(p.input_names_, " skip")
     ELSE IF bytecode = CODE_WRITE THEN Named(p.output_names_, " <- stack")
     ELSE IF bytecode = CODE_LEN_OUTPUT THEN Named(p.output_names_, " len")
     ELSE IF bytecode = CODE_REWIND THEN Named(p.output_names_, " rewind")
     ELSE Text(word)

decompiled(p) ==
  LET Text(s) == [k |-> "text", out |-> s]
      variables[n \in 0..Len(p.variable_names_)] ==
        IF n = 0 THEN ""
        ELSE variables[n - 1] \o "variable " \o p.variable_names_[n] \o "\n"
      inputs[n \in 0..Len(p.input_names_)] ==
        IF n = 0 THEN ""
        ELSE inputs[n - 1] \o "input " \o p.input_names_[n] \o "\n"
      outputs[n \in 0..Len(p.output_names_)] ==
        IF n = 0 THEN ""
        ELSE outputs[n - 1] \o "output " \o p.output_names_[n] \o " "
               \o p.output_dtypes_[n] \o "\n"
      declared == Len(p.variable_names_) + Len(p.input_names_)
                    + Len(p.output_names_) # 0
      Definition(i) ==
        LET segment_position == p.dictionary_bytecodes_[i] - BOUND_DICTIONARY
        IN joined(<< Text((IF declared \/ i > 1 THEN "\n" ELSE "")
                            \o ": " \o p.dictionary_names_[i] \o "\n"
                            \o (IF segment_nonempty(p, segment_position)
                                  THEN "  " ELSE "")),
                     decompiled_segment(p, segment_position, "  ",
                         p.bytecodes_offsets_[segment_position + 1]),
                     Text(";\n") >>)
      first == ~declared /\ Len(p.dictionary_names_) = 0
  IN joined(<< Text(variables[Len(p.variable_names_)]
                      \o inputs[Len(p.input_names_)]
                      \o outputs[Len(p.output_names_)]) >>
            \o [i \in 1..Len(p.dictionary_names_) |-> Definition(i)]
            \o << Text(IF ~first /\ p.bytecodes_offsets_[2] # 0
                         THEN "\n" ELSE ""),
                  decompiled_segment(p, 0, "", p.bytecodes_offsets_[1]) >>)

(***************************************************************************)
(* Runtime state.  A machine record m holds the members of ForthMachineOf  *)
(* that a session changes; p is the compiled program (compile(source_)).   *)
(* Arrays are kept as their live prefix: stack_buffer_ up to stack_depth_, *)
(* current_which_/current_where_ up to recursion_current_depth_, do_loop_  *)
(* up to do_current_depth_ (cells above the depth are never read before    *)
(* they are written again).                                                *)
(***************************************************************************)
\* width of the data-stack cell type T (ForthMachine32)
CellBits == 32
\* the greatest value of T
CellMax == 2147483647

Pow2(n) == 2 ^ n

\* a value converted to a signed integer type of the given width; the
\* integers of the model are themselves 32 bits wide, so that a conversion to
\* a type of 32 bits or more changes nothing
WrapSigned(x, bits) ==
  IF bits >= CellBits THEN x
  ELSE LET r == x % Pow2(bits)
       IN IF r >= Pow2(bits - 1) THEN r - Pow2(bits) ELSE r

WrapUnsigned(x, bits) == IF bits >= CellBits THEN x ELSE x % Pow2(bits)

Cell(x) == WrapSigned(x, CellBits)

Prefix(seq, n) == SubSeq(seq, 1, IF n < Len(seq) THEN n ELSE Len(seq))

\* stack_buffer_[k] for a 0-based k below stack_depth_
StackCell(m, k) ==
  IF k + 1 \in 1..Len(m.stack_buffer_) THEN m.stack_buffer_[k + 1] ELSE 0

stack_cannot_push(m) == m.stack_depth_ = StackMaxDepth

stack_cannot_pop(m) == m.stack_depth_ = 0

stack_cannot_pop2(m) == m.stack_depth_ < 2

stack_cannot_pop3(m) == m.stack_depth_ < 3

stack_push(m, value) ==
  [m EXCEPT !.stack_buffer_ = Append(Prefix(@, m.stack_depth_), Cell(value)),
            !.stack_depth_ = @ + 1]

\* the stack after n cells were popped; the popped values are StackCell(m, ..)
stack_drop(m, n) ==
  [m EXCEPT !.stack_buffer_ = Prefix(@, m.stack_depth_ - n),
            !.stack_depth_ = @ - n]

stack_top(m) == StackCell(m, m.stack_depth_ - 1)

\* stack_buffer_[stack_depth_ - k] = value, for a live cell
stack_set(m, k, value) ==
  IF m.stack_depth_ - k + 1 \in 1..Len(m.stack_buffer_)
    THEN [m EXCEPT !.stack_buffer_[m.stack_depth_ - k + 1] = Cell(value)]
    ELSE m

bytecodes_pointer_which(m) == m.current_which_[m.recursion_current_depth_]

bytecodes_pointer_where(m) == m.current_where_[m.recursion_current_depth_]

\* bytecodes_pointer_where() += n
where_add(m, n) ==
  [m EXCEPT !.current_where_[m.recursion_current_depth_] = @ + n]

\* the frame pointer is readable: some frame is live and its segment exists
pointer_is_valid(p, m) ==
  /\ m.recursion_current_depth_ \in 1..Len(m.current_which_)
  /\ bytecodes_pointer_which(m) + 2 \in 1..Len(p.bytecodes_offsets_)

segment_length(p, which) ==
  p.bytecodes_offsets_[which + 2] - p.bytecodes_offsets_[which + 1]

bytecode_position(p, m) ==
  p.bytecodes_offsets_[bytecodes_pointer_which(m) + 1] + bytecodes_pointer_where(m)

\* bytecode_get() reads inside the bytecodes_ vector
bytecode_is_valid(p, m) ==
  pointer_is_valid(p, m) /\ bytecode_position(p, m) + 1 \in 1..Len(p.bytecodes_)

bytecode_get(p, m) == p.bytecodes_[bytecode_position(p, m) + 1]

is_segment_done(p, m) ==
  ~(bytecodes_pointer_where(m) < segment_length(p, bytecodes_pointer_which(m)))

bytecodes_pointer_push(m, which) ==
  [m EXCEPT
     !.current_which_ = Append(Prefix(@, m.recursion_current_depth_), which),
     !.current_where_ = Append(Prefix(@, m.recursion_current_depth_), 0),
     !.recursion_current_depth_ = @ + 1]

\* recursion_current_depth_ -= n, as bytecodes_pointer_pop (n = 1) and EXIT do
pointer_drop(m, n) ==
  [m EXCEPT
     !.current_which_ = Prefix(@, m.recursion_current_depth_ - n),
     !.current_where_ = Prefix(@, m.recursion_current_depth_ - n),
     !.recursion_current_depth_ = @ - n]

bytecodes_pointer_pop(m) == pointer_drop(m, 1)

do_top(m) == m.do_loop_[m.do_current_depth_]

do_abs_recursion_depth(m) == do_top(m).abs_recursion_depth

do_loop_is_step(m) == do_top(m).is_step

do_stop(m) == do_top(m).stop

do_i(m) == do_top(m).i

do_j(m) == m.do_loop_[m.do_current_depth_ - 1].i

do_k(m) == m.do_loop_[m.do_current_depth_ - 2].i

do_push(m, start, stop, is_step) ==
  [m EXCEPT
     !.do_loop_ = Append(Prefix(@, m.do_current_depth_),
                         [abs_recursion_depth |-> m.recursion_current_depth_,
                          stop |-> stop, i |-> start, is_step |-> is_step]),
     !.do_current_depth_ = @ + 1]

do_loop_push(m, start, stop) == do_push(m, start, stop, FALSE)

do_steploop_push(m, start, stop) == do_push(m, start, stop, TRUE)

\* do_current_depth_--
do_pop(m) ==
  [m EXCEPT !.do_loop_ = Prefix(@, m.do_current_depth_ - 1),
            !.do_current_depth_ = @ - 1]

\* do_i() += n
do_i_add(m, n) == [m EXCEPT !.do_loop_[m.do_current_depth_].i = @ + n]

\* the do-frame on top of the do-loop stack belongs to the current depth
do_is_current(m) ==
  m.do_current_depth_ # 0
    /\ do_abs_recursion_depth(m) = m.recursion_current_depth_

is_ready(m) == m.is_ready_

is_done(m) == m.recursion_current_depth_ = 0

(***************************************************************************)
(* Input and output buffers (ForthInputBuffer, ForthOutputBufferOf<OUT>).  *)
(* An input is [buf |-> bytes, pos |-> cursor]; an output is the sequence  *)
(* of its elements, of the declared dtype.                                 *)
(***************************************************************************)
input_read_ok(input, num_bytes) == ~(input.pos + num_bytes > Len(input.buf))

input_seek_ok(input, to) == ~(to < 0 \/ to > Len(input.buf))

input_skip_ok(input, num) ==
  ~(input.pos + num < 0 \/ input.pos + num > Len(input.buf))

input_end(input) == input.pos = Len(input.buf)

\* sizeof(TYPE) of a typed read, 0 for the floating-point types, whose values
\* the model does not represent
read_sizeof(type) ==
  CASE type \in {READ_BOOL, READ_INT8, READ_UINT8} -> 1
    [] type \in {READ_INT16, READ_UINT16} -> 2
    [] type \in {READ_INT32, READ_UINT32} -> 4
    [] type \in {READ_INT64, READ_UINT64, READ_INTP, READ_UINTP} -> 8
    [] OTHER -> 0

read_is_signed(type) ==
  type \in {READ_INT8, READ_INT16, READ_INT32, READ_INT64, READ_INTP}

RECURSIVE bytes_value(_)
\* the unsigned value of bytes stored least significant first
bytes_value(bytes) ==
  IF bytes = <<>> THEN 0 ELSE Head(bytes) + 256 * bytes_value(Tail(bytes))

RECURSIVE reverse(_)
reverse(seq) == IF seq = <<>> THEN <<>> ELSE Append(reverse(Tail(seq)), Head(seq))

\* item k (0-based) of a typed read at the input's cursor: the bytes
\* reinterpreted as TYPE on a little-endian host, byte-swapped when asked
read_item(input, type, k, byteswap) ==
  LET size == read_sizeof(type)
      bytes == SubSeq(input.buf, input.pos + k * size + 1,
                      input.pos + (k + 1) * size)
      raw == bytes_value(IF byteswap /\ size > 1 THEN reverse(bytes) ELSE bytes)
  IN IF type = READ_BOOL THEN (IF raw # 0 THEN 1 ELSE 0)
     ELSE IF read_is_signed(type) THEN WrapSigned(raw, 8 * size)
     ELSE raw

\* a value converted to the element type of an output
output_cast(dtype, value) ==
  CASE dtype = "bool" -> (IF value # 0 THEN 1 ELSE 0)
    [] dtype = "int8" -> WrapSigned(value, 8)
    [] dtype = "int16" -> WrapSigned(value, 16)
    [] dtype = "int32" -> WrapSigned(value, 32)
    [] dtype = "int64" -> WrapSigned(value, 64)
    [] dtype = "uint8" -> WrapUnsigned(value, 8)
    [] dtype = "uint16" -> WrapUnsigned(value, 16)
    [] dtype = "uint32" -> WrapUnsigned(value, 32)
    [] dtype = "uint64" -> WrapUnsigned(value, 64)
    [] OTHER -> value

output_write(p, m, out_num, value) ==
  [m EXCEPT !.current_outputs_[out_num + 1] =
              Append(@, output_cast(p.output_dtypes_[out_num + 1], value))]

RECURSIVE output_write_many(_, _, _, _, _, _, _)
output_write_many(p, m, out_num, input, type, byteswap, k) ==
  IF k <= 0 THEN m
  ELSE output_write(p,
                    output_write_many(p, m, out_num, input, type, byteswap, k - 1),
                    out_num, read_item(input, type, k - 1, byteswap))

(***************************************************************************)
(* C++ integer arithmetic on cells.                                        *)
(***************************************************************************)
Abs(x) == IF x < 0 THEN -x ELSE x

\* a / b of C++: the quotient truncated toward zero (b # 0)
TruncDiv(a, b) ==
  IF (a < 0) = (b < 0) THEN Abs(a) \div Abs(b) ELSE -(Abs(a) \div Abs(b))

\* a % b of C++: the remainder with the sign of a (b # 0)
TruncRem(a, b) == a - b * TruncDiv(a, b)

\* (a < 0) ^ (b < 0) as an integer
SignsDiffer(a, b) == IF (a < 0) # (b < 0) THEN 1 ELSE 0

\* forth_div without the adjustment: the quotient of C++
forth_div_truncating(a, b) == TruncDiv(a, b)

forth_div(a, b) ==
  LET tmp == TruncDiv(a, b)
  IN IF tmp * b = a THEN tmp ELSE tmp - SignsDiffer(a, b)

\* forth_mod without the adjustment: the remainder of C++
forth_mod_truncating(a, b) == TruncRem(a, b)

forth_mod(a, b) == TruncRem(b + TruncRem(a, b), b)

\* b + r is outside the cell type
sum_overflows(b, r) ==
  \/ b > 0 /\ r > 0 /\ r > CellMax - b
  \/ b < 0 /\ r < 0 /\ r < (-CellMax - 1) - b

\* op on two bits
bit_op(bx, by, op) ==
  CASE op = "and" -> (IF bx = 1 /\ by = 1 THEN 1 ELSE 0)
    [] op = "or" -> (IF bx = 1 \/ by = 1 THEN 1 ELSE 0)
    [] OTHER -> (IF bx # by THEN 1 ELSE 0)

RECURSIVE cell_bitwise(_, _, _)
\* a & b, a | b, a ^ b on two's complement cells: bit by bit, down to the
\* sign extension (0 or -1) of both operands
cell_bitwise(a, b, op) ==
  IF a \in {0, -1} /\ b \in {0, -1}
    THEN -bit_op(-a, -b, op)
    ELSE bit_op(a % 2, b % 2, op) + 2 * cell_bitwise(a \div 2, b \div 2, op)

(***************************************************************************)
(* internal_run.  An instruction handler returns [m, k]: the machine after *)
(* it and how control leaves it: "break" (end of the switch: the           *)
(* instruction is counted), "continue" (next iteration of the segment      *)
(* loop), "after" (goto after_end_of_segment) or "return".                 *)
(* m.undefined_ records that the code read or wrote outside an array: what *)
(* the build does from there on is not defined, and the session stops.     *)
(***************************************************************************)
Res(m, k) == [m |-> m, k |-> k]

Err(m, error) == Res([m EXCEPT !.current_error_ = error], "return")

Undefined(m) == Res([m EXCEPT !.undefined_ = TRUE], "return")

\* A handler with an operand, 'I num = bytecode_get(); where++', is a local
\* F(num, m1) applied to the operand and to the machine past the operand.

\* handlers of the shape: check underflow, pop2_before_pushing1, pair[0] = ...
Binary(m, value) ==
  IF stack_cannot_pop2(m) THEN Err(m, "stack_underflow")
  ELSE Res(stack_set(stack_drop(m, 1), 1, value), "break")

\* handlers of the shape: check underflow, *stack_peek() = ...
Unary(m, value) ==
  IF stack_cannot_pop(m) THEN Err(m, "stack_underflow")
  ELSE Res(stack_set(m, 1, value), "break")

\* handlers of the shape: check overflow, stack_push(...)
Push(m, value) ==
  IF stack_cannot_push(m) THEN Err(m, "stack_overflow")
  ELSE Res(stack_push(m, value), "break")

RECURSIVE push_items(_, _, _, _, _, _)
\* the loop of WRITE_TO_STACK: items k .. num_items - 1 of the read
push_items(m, input, type, byteswap, k, num_items) ==
  IF ~(k < num_items) THEN Res(m, "break")
  ELSE IF stack_cannot_push(m) THEN Err(m, "stack_overflow")
  ELSE push_items(stack_push(m, read_item(input, type, k, byteswap)),
                  input, type, byteswap, k + 1, num_items)

\* typed_io with a cell pushed before the read is found to be short
typed_io_pushing_first(p, m, bytecode) ==
  LET flags == -bytecode - 1
      direct == (flags % 2) = 1
      repeated == ((flags \div 2) % 2) = 1
      byteswap == ((flags \div 4) % 2) = 1
      type == ((flags \div 8) % 16) * 8
      size == read_sizeof(type)
      Body(in_num, m1) ==
        IF repeated /\ stack_cannot_pop(m1) THEN Err(m1, "stack_underflow")
        ELSE
          LET num_items == IF repeated THEN stack_top(m1) ELSE 1
              m2 == IF repeated THEN stack_drop(m1, 1) ELSE m1
              Read(out_num, m3) ==
                IF in_num + 1 \notin 1..Len(m3.current_inputs_) \/ size = 0
                  THEN Undefined(m3)
                ELSE
                  LET input == m3.current_inputs_[in_num + 1]
                      m4 == [m3 EXCEPT !.current_inputs_[in_num + 1].pos =
                                          @ + num_items * size]
                  IN IF ~input_read_ok(input, num_items * size)
                       THEN Err(stack_push(m3, 0), "read_beyond")
                     ELSE IF num_items < 0 /\ (direct \/ m4.current_inputs_[in_num + 1].pos < 0)
                       THEN Undefined(m4)
                     ELSE IF direct
                       THEN IF out_num + 1 \notin 1..Len(m4.current_outputs_)
                              THEN Undefined(m4)
                              ELSE Res([output_write_many(p, m4, out_num, input,
                                                          type, byteswap, num_items)
                                          EXCEPT !.count_writes_ = @ + 1,
                                                 !.count_reads_ = @ + 1],
                                       "break")
                     ELSE LET r == push_items(m4, input, type, byteswap, 0, num_items)
                          IN IF r.k = "break"
                               THEN Res([r.m EXCEPT !.count_reads_ = @ + 1], "break")
                               ELSE r
          IN IF direct THEN IF ~bytecode_is_valid(p, m2) THEN Undefined(m2)
                            ELSE Read(bytecode_get(p, m2), where_add(m2, 1))
             ELSE Read(0, m2)
  IN IF ~bytecode_is_valid(p, m) THEN Undefined(m)
     ELSE Body(bytecode_get(p, m), where_add(m, 1))

typed_io(p, m, bytecode) ==
  LET flags == -bytecode - 1
      direct == (flags % 2) = 1
      repeated == ((flags \div 2) % 2) = 1
      byteswap == ((flags \div 4) % 2) = 1
      type == ((flags \div 8) % 16) * 8
      size == read_sizeof(type)
      Body(in_num, m1) ==
        IF repeated /\ stack_cannot_pop(m1) THEN Err(m1, "stack_underflow")
        ELSE
          LET num_items == IF repeated THEN stack_top(m1) ELSE 1
              m2 == IF repeated THEN stack_drop(m1, 1) ELSE m1
              Read(out_num, m3) ==
                IF in_num + 1 \notin 1..Len(m3.current_inputs_) \/ size = 0
                  THEN Undefined(m3)
                ELSE
                  LET input == m3.current_inputs_[in_num + 1]
                      m4 == [m3 EXCEPT !.current_inputs_[in_num + 1].pos =
                                          @ + num_items * size]
                  IN IF ~input_read_ok(input, num_items * size)
                       THEN Err(m3, "read_beyond")
                     ELSE IF num_items < 0 /\ (direct \/ m4.current_inputs_[in_num + 1].pos < 0)
                       THEN Undefined(m4)
                     ELSE IF direct
                       THEN IF out_num + 1 \notin 1..Len(m4.current_outputs_)
                              THEN Undefined(m4)
                              ELSE Res([output_write_many(p, m4, out_num, input,
                                                          type, byteswap, num_items)
                                          EXCEPT !.count_writes_ = @ + 1,
                                                 !.count_reads_ = @ + 1],
                                       "break")
                     ELSE LET r == push_items(m4, input, type, byteswap, 0, num_items)
                          IN IF r.k = "break"
                               THEN Res([r.m EXCEPT !.count_reads_ = @ + 1], "break")
                               ELSE r
          IN IF direct THEN IF ~bytecode_is_valid(p, m2) THEN Undefined(m2)
                            ELSE Read(bytecode_get(p, m2), where_add(m2, 1))
             ELSE Read(0, m2)
  IN IF ~bytecode_is_valid(p, m) THEN Undefined(m)
     ELSE Body(bytecode_get(p, m), where_add(m, 1))

\* segment_call with no test of the depth
segment_call_unchecked(m, bytecode) ==
  Res(bytecodes_pointer_push(m, bytecode - BOUND_DICTIONARY), "break")

segment_call(m, bytecode) ==
  IF m.recursion_current_depth_ = RecursionMaxDepth
    THEN Err(m, "recursion_depth_exceeded")
    ELSE Res(bytecodes_pointer_push(m, bytecode - BOUND_DICTIONARY), "break")

code_literal(p, m) ==
  LET F(num, m1) == Push(m1, num) IN IF ~bytecode_is_valid(p, m) THEN Undefined(m)
                                     ELSE F(bytecode_get(p, m), where_add(m, 1))

\* code_halt with 'do_current_depth_ = 0' forgotten
code_halt_keeping_loops(m) ==
  Res([m EXCEPT !.is_ready_ = FALSE,
                !.current_which_ = <<>>,
                !.current_where_ = <<>>,
                !.recursion_current_depth_ = 0,
                !.recursion_target_depth_ = Prefix(@, 1),
                !.current_error_ = "user_halt",
                !.count_instructions_ = @ + 1],
      "return")

code_halt(m) ==
  Res([m EXCEPT !.is_ready_ = FALSE,
                !.current_which_ = <<>>,
                !.current_where_ = <<>>,
                !.recursion_current_depth_ = 0,
                !.recursion_target_depth_ = Prefix(@, 1),
                !.do_loop_ = <<>>,
                !.do_current_depth_ = 0,
                !.current_error_ = "user_halt",
                !.count_instructions_ = @ + 1],
      "return")

\* End one step of a 'do ... loop' or a 'do ... +loop', when the do-frame on
\* top belongs to the current depth; k is how control goes on when no error
do_loop_step(m, k) ==
  IF do_is_current(m)
    THEN IF do_loop_is_step(m)
           THEN IF stack_cannot_pop(m) THEN Err(m, "stack_underflow")
                ELSE Res(do_i_add(stack_drop(m, 1), stack_top(m)), k)
           ELSE Res(do_i_add(m, 1), k)
    ELSE Res(m, k)

\* code_pause ending the segment as the single-step return does: the frame
\* is popped and the index of the loop is left alone
code_pause_leaving_index(p, m) ==
  Res([(IF is_segment_done(p, m) THEN bytecodes_pointer_pop(m) ELSE m)
         EXCEPT !.count_instructions_ = @ + 1],
      "return")

code_pause(p, m) ==
  LET r == IF is_segment_done(p, m)
             THEN do_loop_step(bytecodes_pointer_pop(m), "pause")
             ELSE Res(m, "pause")
  IN IF r.k = "pause"
       THEN Res([r.m EXCEPT !.count_instructions_ = @ + 1], "return")
       ELSE r

\* code_if that pops the predicate and never skips the consequent
code_if_never_skipping(m) ==
  IF stack_cannot_pop(m) THEN Err(m, "stack_underflow")
  ELSE Res(stack_drop(m, 1), "break")

code_if(m) ==
  IF stack_cannot_pop(m) THEN Err(m, "stack_underflow")
  ELSE IF stack_top(m) = 0 THEN Res(where_add(stack_drop(m, 1), 1), "break")
  ELSE Res(stack_drop(m, 1), "break")

code_if_else(p, m) ==
  IF stack_cannot_pop(m) THEN Err(m, "stack_underflow")
  ELSE IF stack_top(m) = 0 THEN Res(where_add(stack_drop(m, 1), 1), "break")
  ELSE IF ~bytecode_is_valid(p, m) THEN Undefined(m)
  ELSE LET consequent == bytecode_get(p, m)
           m1 == where_add(stack_drop(m, 1), 2)
       IN IF m1.recursion_current_depth_ = RecursionMaxDepth
            THEN Err(m1, "recursion_depth_exceeded")
            ELSE Res([bytecodes_pointer_push(m1, consequent - BOUND_DICTIONARY)
                        EXCEPT !.count_instructions_ = @ + 1],
                     "break")

code_do(m, is_step) ==
  IF stack_cannot_pop2(m) THEN Err(m, "stack_underflow")
  ELSE LET m1 == stack_drop(m, 2)
           start == StackCell(m, m.stack_depth_ - 1)
           stop == StackCell(m, m.stack_depth_ - 2)
       IN IF m1.do_current_depth_ = RecursionMaxDepth
            THEN Err(m1, "recursion_depth_exceeded")
            ELSE Res(IF is_step THEN do_steploop_push(m1, start, stop)
                                ELSE do_loop_push(m1, start, stop),
                     "break")

code_again(m) == Res(where_add(m, -2), "break")

code_until(m) ==
  IF stack_cannot_pop(m) THEN Err(m, "stack_underflow")
  ELSE IF stack_top(m) = 0 THEN Res(where_add(stack_drop(m, 1), -2), "break")
  ELSE Res(stack_drop(m, 1), "break")

\* code_while with the position left behind the loop when the predicate
\* is nonzero, as CODE_IF_ELSE leaves it
code_while_once(p, m) ==
  IF stack_cannot_pop(m) THEN Err(m, "stack_underflow")
  ELSE IF stack_top(m) = 0 THEN Res(where_add(stack_drop(m, 1), 1), "break")
  ELSE IF ~bytecode_is_valid(p, m) THEN Undefined(m)
  ELSE LET posttest == bytecode_get(p, m)
           m1 == where_add(stack_drop(m, 1), 1)
       IN IF m1.recursion_current_depth_ = RecursionMaxDepth
            THEN Err(m1, "recursion_depth_exceeded")
            ELSE Res([bytecodes_pointer_push(m1, posttest - BOUND_DICTIONARY)
                        EXCEPT !.count_instructions_ = @ + 1],
                     "break")

code_while(p, m) ==
  IF stack_cannot_pop(m) THEN Err(m, "stack_underflow")
  ELSE IF stack_top(m) = 0 THEN Res(where_add(stack_drop(m, 1), 1), "break")
  ELSE IF ~bytecode_is_valid(p, m) THEN Undefined(m)
  ELSE LET posttest == bytecode_get(p, m)
           m1 == where_add(stack_drop(m, 1), -2)
       IN IF m1.recursion_current_depth_ = RecursionMaxDepth
            THEN Err(m1, "recursion_depth_exceeded")
            ELSE Res([bytecodes_pointer_push(m1, posttest - BOUND_DICTIONARY)
                        EXCEPT !.count_instructions_ = @ + 1],
                     "break")

RECURSIVE exit_prune(_)
\* the do-frames EXIT removes: from the top, down to the first frame whose
\* depth is the current one
exit_prune(m) ==
  IF m.do_current_depth_ # 0
       /\ do_abs_recursion_depth(m) # m.recursion_current_depth_
    THEN exit_prune(do_pop(m))
    ELSE m

code_exit(p, m, single_step) ==
  LET F(exitdepth, m1) ==
        IF exitdepth < 0 \/ m1.recursion_current_depth_ - exitdepth < 1
          THEN Undefined(m1)
        ELSE
          LET m2 == exit_prune(pointer_drop(m1, exitdepth))
              m3 == [m2 EXCEPT !.count_instructions_ = @ + 1]
          IN IF single_step
               THEN IF ~pointer_is_valid(p, m3) THEN Undefined(m3)
                    ELSE IF is_segment_done(p, m3)
                      THEN Res(bytecodes_pointer_pop(m3), "return")
                      ELSE Res(m3, "return")
               ELSE Res(m3, "after")
  IN IF ~bytecode_is_valid(p, m) THEN Undefined(m)
     ELSE F(bytecode_get(p, m), where_add(m, 1))

code_put(p, m) ==
  LET F(num, m1) ==
        IF stack_cannot_pop(m1) THEN Err(m1, "stack_underflow")
        ELSE IF num + 1 \notin 1..Len(m1.variables_) THEN Undefined(m1)
        ELSE Res([stack_drop(m1, 1) EXCEPT !.variables_[num + 1] = stack_top(m1)],
                 "break")
  IN IF ~bytecode_is_valid(p, m) THEN Undefined(m)
     ELSE F(bytecode_get(p, m), where_add(m, 1))

code_inc(p, m) ==
  LET F(num, m1) ==
        IF stack_cannot_pop(m1) THEN Err(m1, "stack_underflow")
        ELSE IF num + 1 \notin 1..Len(m1.variables_) THEN Undefined(m1)
        ELSE Res([stack_drop(m1, 1) EXCEPT
                    !.variables_[num + 1] = Cell(@ + stack_top(m1))],
                 "break")
  IN IF ~bytecode_is_valid(p, m) THEN Undefined(m)
     ELSE F(bytecode_get(p, m), where_add(m, 1))

code_get(p, m) ==
  LET F(num, m1) ==
        IF stack_cannot_push(m1) THEN Err(m1, "stack_overflow")
        ELSE IF num + 1 \notin 1..Len(m1.variables_) THEN Undefined(m1)
        ELSE Res(stack_push(m1, m1.variables_[num + 1]), "break")
  IN IF ~bytecode_is_valid(p, m) THEN Undefined(m)
     ELSE F(bytecode_get(p, m), where_add(m, 1))

\* LEN_INPUT, POS, END: push a property of an input
code_input_push(p, m, bytecode) ==
  LET F(in_num, m1) ==
        IF stack_cannot_push(m1) THEN Err(m1, "stack_overflow")
        ELSE IF in_num + 1 \notin 1..Len(m1.current_inputs_) THEN Undefined(m1)
        ELSE LET input == m1.current_inputs_[in_num + 1]
             IN Res(stack_push(m1,
                      CASE bytecode = CODE_LEN_INPUT -> Len(input.buf)
                        [] bytecode = CODE_POS -> input.pos
                        [] OTHER -> IF input_end(input) THEN -1 ELSE 0),
                    "break")
  IN IF ~bytecode_is_valid(p, m) THEN Undefined(m)
     ELSE F(bytecode_get(p, m), where_add(m, 1))

\* SEEK, SKIP: pop the argument and move the cursor of an input
code_input_move(p, m, bytecode) ==
  LET F(in_num, m1) ==
        IF stack_cannot_pop(m1) THEN Err(m1, "stack_underflow")
        ELSE IF in_num + 1 \notin 1..Len(m1.current_inputs_) THEN Undefined(m1)
        ELSE LET input == m1.current_inputs_[in_num + 1]
                 arg == stack_top(m1)
                 m2 == stack_drop(m1, 1)
             IN IF bytecode = CODE_SEEK
                  THEN IF input_seek_ok(input, arg)
                         THEN Res([m2 EXCEPT !.current_inputs_[in_num + 1].pos = arg],
                                  "break")
                         ELSE Err(m2, "seek_beyond")
                  ELSE IF input_skip_ok(input, arg)
                         THEN Res([m2 EXCEPT !.current_inputs_[in_num + 1].pos = @ + arg],
                                  "break")
                         ELSE Err(m2, "skip_beyond")
  IN IF ~bytecode_is_valid(p, m) THEN Undefined(m)
     ELSE F(bytecode_get(p, m), where_add(m, 1))

code_write(p, m) ==
  LET F(out_num, m1) ==
        IF stack_cannot_pop(m1) THEN Err(m1, "stack_underflow")
        ELSE IF out_num + 1 \notin 1..Len(m1.current_outputs_) THEN Undefined(m1)
        ELSE Res([stack_drop(output_write(p, m1, out_num, stack_top(m1)), 1)
                    EXCEPT !.count_writes_ = @ + 1],
                 "break")
  IN IF ~bytecode_is_valid(p, m) THEN Undefined(m)
     ELSE F(bytecode_get(p, m), where_add(m, 1))

code_len_output(p, m) ==
  LET F(out_num, m1) ==
        IF stack_cannot_push(m1) THEN Err(m1, "stack_overflow")
        ELSE IF out_num + 1 \notin 1..Len(m1.current_outputs_) THEN Undefined(m1)
        ELSE Res(stack_push(m1, Len(m1.current_outputs_[out_num + 1])), "break")
  IN IF ~bytecode_is_valid(p, m) THEN Undefined(m)
     ELSE F(bytecode_get(p, m), where_add(m, 1))

code_rewind(p, m) ==
  LET F(out_num, m1) ==
        IF stack_cannot_pop(m1) THEN Err(m1, "stack_underflow")
        ELSE IF out_num + 1 \notin 1..Len(m1.current_outputs_) THEN Undefined(m1)
        ELSE LET length == Len(m1.current_outputs_[out_num + 1])
                 next == length - stack_top(m1)
                 m2 == stack_drop(m1, 1)
             IN IF next < 0 THEN Err(m2, "rewind_beyond")
                ELSE IF next > length THEN Undefined(m2)
                ELSE Res([m2 EXCEPT !.current_outputs_[out_num + 1] =
                                       Prefix(@, next)],
                         "break")
  IN IF ~bytecode_is_valid(p, m) THEN Undefined(m)
     ELSE F(bytecode_get(p, m), where_add(m, 1))

\* code_loop_index taking the frame on top of the do-stack for J and K too
code_loop_index_of_top(m, n) ==
  IF stack_cannot_push(m) THEN Err(m, "stack_overflow")
  ELSE IF m.do_current_depth_ \notin 1..Len(m.do_loop_) THEN Undefined(m)
  ELSE Res(stack_push(m, do_i(m)), "break")

\* I, J, K: push the index of the do-frame n below the top of the do-stack
code_loop_index(m, n) ==
  IF stack_cannot_push(m) THEN Err(m, "stack_overflow")
  ELSE IF m.do_current_depth_ - n \notin 1..Len(m.do_loop_) THEN Undefined(m)
  ELSE Res(stack_push(m, m.do_loop_[m.do_current_depth_ - n].i), "break")

\* code_dup with the test of stack_cannot_push forgotten
code_dup_unchecked(m) ==
  IF stack_cannot_pop(m) THEN Err(m, "stack_underflow")
  ELSE Res(stack_push(m, stack_top(m)), "break")

code_dup(m) ==
  IF stack_cannot_pop(m) THEN Err(m, "stack_underflow")
  ELSE IF stack_cannot_push(m) THEN Err(m, "stack_overflow")
  ELSE Res(stack_push(m, stack_top(m)), "break")

code_drop(m) ==
  IF stack_cannot_pop(m) THEN Err(m, "stack_underflow")
  ELSE Res(stack_drop(m, 1), "break")

code_swap(m) ==
  IF stack_cannot_pop2(m) THEN Err(m, "stack_underflow")
  ELSE Res(stack_set(stack_set(m, 2, StackCell(m, m.stack_depth_ - 1)),
                     1, StackCell(m, m.stack_depth_ - 2)),
           "break")

code_over(m) ==
  IF stack_cannot_pop2(m) THEN Err(m, "stack_underflow")
  ELSE IF stack_cannot_push(m) THEN Err(m, "stack_overflow")
  ELSE Res(stack_push(m, StackCell(m, m.stack_depth_ - 2)), "break")

code_rot(m) ==
  IF stack_cannot_pop3(m) THEN Err(m, "stack_underflow")
  ELSE Res(stack_set(stack_set(stack_set(m, 3, StackCell(m, m.stack_depth_ - 2)),
                               2, StackCell(m, m.stack_depth_ - 1)),
                     1, StackCell(m, m.stack_depth_ - 3)),
           "break")

code_nip(m) ==
  IF stack_cannot_pop2(m) THEN Err(m, "stack_underflow")
  ELSE Res(stack_drop(stack_set(m, 2, StackCell(m, m.stack_depth_ - 1)), 1),
           "break")

code_tuck(m) ==
  IF stack_cannot_pop2(m) THEN Err(m, "stack_underflow")
  ELSE IF stack_cannot_push(m) THEN Err(m, "stack_overflow")
  ELSE LET tmp == StackCell(m, m.stack_depth_ - 1)
       IN Res(stack_push(stack_set(stack_set(m, 1, StackCell(m, m.stack_depth_ - 2)),
                                   2, tmp),
                         tmp),
              "break")

\* DIV and MOD: the operands are popped before the divisor is tested.  The
\* quotient and the remainder of the most negative cell by -1, and a sum
\* 'pair[1] + (pair[0] % pair[1])' outside the cell type, are signed overflows
code_div(m, bytecode) ==
  IF stack_cannot_pop2(m) THEN Err(m, "stack_underflow")
  ELSE LET a == StackCell(m, m.stack_depth_ - 2)
           b == StackCell(m, m.stack_depth_ - 1)
           m1 == stack_drop(m, 1)
       IN IF b = 0 THEN Err(m1, "division_by_zero")
          ELSE IF b = -1 /\ a = -CellMax - 1 THEN Undefined(m1)
          ELSE IF bytecode = CODE_MOD /\ sum_overflows(b, TruncRem(a, b))
            THEN Undefined(m1)
          ELSE Res(stack_set(m1, 1, IF bytecode = CODE_DIV THEN forth_div(a, b)
                                                           ELSE forth_mod(a, b)),
                   "break")

\* code_divmod leaving the quotient below the remainder
code_divmod_quotient_below(m) ==
  IF stack_cannot_pop2(m) THEN Err(m, "stack_underflow")
  ELSE LET one == StackCell(m, m.stack_depth_ - 2)
           two == StackCell(m, m.stack_depth_ - 1)
       IN IF two = 0 THEN Err(m, "division_by_zero")
          ELSE IF two = -1 /\ one = -CellMax - 1 THEN Undefined(m)
          ELSE IF sum_overflows(two, TruncRem(one, two)) THEN Undefined(m)
          ELSE Res(stack_set(stack_set(m, 1, forth_mod(one, two)),
                             2, forth_div(one, two)),
                   "break")

\* code_divmod with the test of the divisor forgotten, the division by zero
\* leaving the operands as they are
code_divmod_ignoring_zero(m) ==
  IF stack_cannot_pop2(m) THEN Err(m, "stack_underflow")
  ELSE LET one == StackCell(m, m.stack_depth_ - 2)
           two == StackCell(m, m.stack_depth_ - 1)
       IN IF two = 0 THEN Res(m, "break")
          ELSE IF two = -1 /\ one = -CellMax - 1 THEN Undefined(m)
          ELSE IF sum_overflows(two, TruncRem(one, two)) THEN Undefined(m)
          ELSE Res(stack_set(stack_set(m, 1, forth_div(one, two)),
                             2, forth_mod(one, two)),
                   "break")

code_divmod(m) ==
  IF stack_cannot_pop2(m) THEN Err(m, "stack_underflow")
  ELSE LET one == StackCell(m, m.stack_depth_ - 2)
           two == StackCell(m, m.stack_depth_ - 1)
       IN IF two = 0 THEN Err(m, "division_by_zero")
          ELSE IF two = -1 /\ one = -CellMax - 1 THEN Undefined(m)
          ELSE IF sum_overflows(two, TruncRem(one, two)) THEN Undefined(m)
          ELSE Res(stack_set(stack_set(m, 1, forth_div(one, two)),
                             2, forth_mod(one, two)),
                   "break")

\* LSHIFT, RSHIFT: a shift count outside the width of the cell is undefined
code_shift(m, bytecode) ==
  IF stack_cannot_pop2(m) THEN Err(m, "stack_underflow")
  ELSE LET a == StackCell(m, m.stack_depth_ - 2)
           b == StackCell(m, m.stack_depth_ - 1)
           m1 == stack_drop(m, 1)
       IN IF b \notin 0..(CellBits - 1) THEN Undefined(m1)
          ELSE Res(stack_set(m1, 1, IF bytecode = CODE_LSHIFT THEN a * Pow2(b)
                                                              ELSE a \div Pow2(b)),
                   "break")

\* the switch over the builtin instructions
builtin(p, m, bytecode, single_step) ==
  LET a == StackCell(m, m.stack_depth_ - 2)
      b == StackCell(m, m.stack_depth_ - 1)
      Bool(t) == IF t THEN -1 ELSE 0
  IN
  CASE bytecode = CODE_LITERAL -> code_literal(p, m)
    [] bytecode = CODE_HALT -> code_halt(m)
    [] bytecode = CODE_PAUSE -> code_pause(p, m)
    [] bytecode = CODE_IF -> code_if(m)
    [] bytecode = CODE_IF_ELSE -> code_if_else(p, m)
    [] bytecode = CODE_DO -> code_do(m, FALSE)
    [] bytecode = CODE_DO_STEP -> code_do(m, TRUE)
    [] bytecode = CODE_AGAIN -> code_again(m)
    [] bytecode = CODE_UNTIL -> code_until(m)
    [] bytecode = CODE_WHILE -> code_while(p, m)
    [] bytecode = CODE_EXIT -> code_exit(p, m, single_step)
    [] bytecode = CODE_PUT -> code_put(p, m)
    [] bytecode = CODE_INC -> code_inc(p, m)
    [] bytecode = CODE_GET -> code_get(p, m)
    [] bytecode \in {CODE_LEN_INPUT, CODE_POS, CODE_END} ->
         code_input_push(p, m, bytecode)
    [] bytecode \in {CODE_SEEK, CODE_SKIP} -> code_input_move(p, m, bytecode)
    [] bytecode = CODE_WRITE -> code_write(p, m)
    [] bytecode = CODE_LEN_OUTPUT -> code_len_output(p, m)
    [] bytecode = CODE_REWIND -> code_rewind(p, m)
    [] bytecode = CODE_I -> code_loop_index(m, 0)
    [] bytecode = CODE_J -> code_loop_index(m, 1)
    [] bytecode = CODE_K -> code_loop_index(m, 2)
    [] bytecode = CODE_DUP -> code_dup(m)
    [] bytecode = CODE_DROP -> code_drop(m)
    [] bytecode = CODE_SWAP -> code_swap(m)
    [] bytecode = CODE_OVER -> code_over(m)
    [] bytecode = CODE_ROT -> code_rot(m)
    [] bytecode = CODE_NIP -> code_nip(m)
    [] bytecode = CODE_TUCK -> code_tuck(m)
    [] bytecode = CODE_ADD -> Binary(m, a + b)
    [] bytecode = CODE_SUB -> Binary(m, a - b)
    [] bytecode = CODE_MUL -> Binary(m, a * b)
    [] bytecode \in {CODE_DIV, CODE_MOD} -> code_div(m, bytecode)
    [] bytecode = CODE_DIVMOD -> code_divmod(m)
    [] bytecode = CODE_NEGATE -> Unary(m, -b)
    [] bytecode = CODE_ADD1 -> Unary(m, b + 1)
    [] bytecode = CODE_SUB1 -> Unary(m, b - 1)
    [] bytecode = CODE_ABS -> Unary(m, Abs(b))
    [] bytecode = CODE_MIN -> Binary(m, IF a < b THEN a ELSE b)
    [] bytecode = CODE_MAX -> Binary(m, IF a > b THEN a ELSE b)
    [] bytecode = CODE_EQ -> Binary(m, Bool(a = b))
    [] bytecode = CODE_NE -> Binary(m, Bool(a # b))
    [] bytecode = CODE_GT -> Binary(m, Bool(a > b))
    [] bytecode = CODE_GE -> Binary(m, Bool(a >= b))
    [] bytecode = CODE_LT -> Binary(m, Bool(a < b))
    [] bytecode = CODE_LE -> Binary(m, Bool(a <= b))
    [] bytecode = CODE_EQ0 -> Unary(m, Bool(b = 0))
    [] bytecode = CODE_INVERT -> Unary(m, -b - 1)
    [] bytecode = CODE_AND -> Binary(m, cell_bitwise(a, b, "and"))
    [] bytecode = CODE_OR -> Binary(m, cell_bitwise(a, b, "or"))
    [] bytecode = CODE_XOR -> Binary(m, cell_bitwise(a, b, "xor"))
    [] bytecode \in {CODE_LSHIFT, CODE_RSHIFT} -> code_shift(m, bytecode)
    [] bytecode = CODE_FALSE -> Push(m, 0)
    [] bytecode = CODE_TRUE -> Push(m, -1)
    [] OTHER -> Res(m, "break")

\* Normal operation: step forward one bytecode, unless the do-frame on top
\* belongs to the current depth
where_if_normal(m) == IF do_is_current(m) THEN m ELSE where_add(m, 1)

\* the instruction is counted; under step() the call returns here, popping
\* the segment frame when the segment is finished
instruction_done(p, m, single_step) ==
  LET m1 == [m EXCEPT !.count_instructions_ = @ + 1]
  IN IF single_step
       THEN IF ~pointer_is_valid(p, m1) THEN Undefined(m1)
            ELSE IF is_segment_done(p, m1)
              THEN Res(bytecodes_pointer_pop(m1), "return")
              ELSE Res(m1, "return")
       ELSE Res(m1, "continue")

\* the handler of the instruction, entered with the position already moved
\* past it (unless a do-frame holds the position on the loop body)
execute(p, m, bytecode, single_step) ==
  IF bytecode < 0 THEN typed_io(p, where_if_normal(m), bytecode)
  ELSE IF bytecode >= BOUND_DICTIONARY
    THEN segment_call(where_if_normal(m), bytecode)
  ELSE builtin(p, where_if_normal(m), bytecode, single_step)

\* a handler that ends in 'break' reaches the end of the loop body
handled(p, r, single_step) ==
  IF r.k = "break" THEN instruction_done(p, r.m, single_step) ELSE r

\* one iteration of the loop over the instructions of the current segment
instruction(p, m, single_step) ==
  IF ~bytecode_is_valid(p, m) THEN Undefined(m)
  ELSE IF do_is_current(m) /\ do_i(m) >= do_stop(m)
    THEN Res(where_add(do_pop(m), 1), "continue")
  ELSE handled(p, execute(p, m, bytecode_get(p, m), single_step), single_step)

after_end_of_segment(m) == do_loop_step(bytecodes_pointer_pop(m), "continue")

RECURSIVE internal_run(_, _, _, _, _)
RECURSIVE segment_loop(_, _, _, _, _)
RECURSIVE segment_next(_, _, _, _, _)
RECURSIVE segment_after(_, _, _, _, _)
\* fuel: iterations left before the invocation counts as not returning
internal_run(p, m, single_step, recursion_target_depth_top, fuel) ==
  IF m.recursion_current_depth_ = recursion_target_depth_top THEN m
  ELSE segment_loop(p, m, single_step, recursion_target_depth_top, fuel)

\* the loop over the instructions of the current segment
segment_loop(p, m, single_step, recursion_target_depth_top, fuel) ==
  IF fuel = 0 THEN [m EXCEPT !.returns_ = FALSE]
  ELSE IF ~pointer_is_valid(p, m) THEN [m EXCEPT !.undefined_ = TRUE]
  ELSE segment_next(p,
                    IF ~is_segment_done(p, m) THEN instruction(p, m, single_step)
                                              ELSE Res(m, "after"),
                    single_step, recursion_target_depth_top, fuel)

\* where control goes after the instruction that left r: out of
\* internal_run, to the next instruction, or to after_end_of_segment
segment_next(p, r, single_step, recursion_target_depth_top, fuel) ==
  IF r.k = "return" THEN r.m
  ELSE IF r.k = "continue"
    THEN segment_loop(p, r.m, single_step, recursion_target_depth_top,
                      fuel - 1)
  ELSE segment_after(p, after_end_of_segment(r.m), single_step,
                     recursion_target_depth_top, fuel)

\* after_end_of_segment has left r: the outer loop goes on unless it returned
segment_after(p, r, single_step, recursion_target_depth_top, fuel) ==
  IF r.k = "return" THEN r.m
  ELSE internal_run(p, r.m, single_step, recursion_target_depth_top, fuel - 1)

(***************************************************************************)
(* The public calls, as functions of the machine record.                   *)
(***************************************************************************)
\* reset with 'do_current_depth_ = 0' forgotten
reset_keeping_loops(m) ==
  [m EXCEPT !.stack_buffer_ = <<>>,
            !.stack_depth_ = 0,
            !.variables_ = [n \in DOMAIN @ |-> 0],
            !.current_inputs_ = <<>>,
            !.current_outputs_ = <<>>,
            !.is_ready_ = FALSE,
            !.current_which_ = <<>>,
            !.current_where_ = <<>>,
            !.recursion_current_depth_ = 0,
            !.recursion_target_depth_ = <<>>,
            !.current_error_ = "none"]

\* reset with the loop over variables_ forgotten
reset_keeping_variables(m) ==
  [m EXCEPT !.stack_buffer_ = <<>>,
            !.stack_depth_ = 0,
            !.current_inputs_ = <<>>,
            !.current_outputs_ = <<>>,
            !.is_ready_ = FALSE,
            !.current_which_ = <<>>,
            !.current_where_ = <<>>,
            !.recursion_current_depth_ = 0,
            !.recursion_target_depth_ = <<>>,
            !.do_loop_ = <<>>,
            !.do_current_depth_ = 0,
            !.current_error_ = "none"]

reset(m) ==
  [m EXCEPT !.stack_buffer_ = <<>>,
            !.stack_depth_ = 0,
            !.variables_ = [n \in DOMAIN @ |-> 0],
            !.current_inputs_ = <<>>,
            !.current_outputs_ = <<>>,
            !.is_ready_ = FALSE,
            !.current_which_ = <<>>,
            !.current_where_ = <<>>,
            !.recursion_current_depth_ = 0,
            !.recursion_target_depth_ = <<>>,
            !.do_loop_ = <<>>,
            !.do_current_depth_ = 0,
            !.current_error_ = "none"]

RECURSIVE begin_inputs(_, _, _)
\* the loop of begin() over input_names_: the buffers found so far, up to
\* the first name the map does not provide
begin_inputs(names, inputs, found) ==
  IF names = <<>> \/ Head(names) \notin DOMAIN inputs THEN found
  ELSE begin_inputs(Tail(names), inputs,
                    Append(found, [buf |-> inputs[Head(names)], pos |-> 0]))

\* begin(inputs) provides every declared input (otherwise it throws)
begin_succeeds(p, inputs) ==
  \A n \in 1..Len(p.input_names_) : p.input_names_[n] \in DOMAIN inputs

\* begin going on after an input that the map does not provide
begin_without_throw(p, m, inputs) ==
  [bytecodes_pointer_push(
     [reset(m) EXCEPT
        !.current_inputs_ = begin_inputs(p.input_names_, inputs, <<>>),
        !.current_outputs_ = [n \in 1..Len(p.output_names_) |-> <<>>],
        !.recursion_target_depth_ = <<0>>],
     0)
   EXCEPT !.is_ready_ = TRUE]

begin(p, m, inputs) ==
  LET m1 == [reset(m) EXCEPT
               !.current_inputs_ = begin_inputs(p.input_names_, inputs, <<>>)]
  IN IF ~begin_succeeds(p, inputs) THEN m1
     ELSE [bytecodes_pointer_push(
             [m1 EXCEPT !.current_outputs_ =
                          [n \in 1..Len(p.output_names_) |-> <<>>],
                        !.recursion_target_depth_ = Append(@, 0)],
             0)
           EXCEPT !.is_ready_ = TRUE]

\* pop_target_if_reached leaving the sentinel of a halted machine
pop_target_unless_halted(m) ==
  IF ~m.returns_ THEN m
  ELSE IF m.recursion_target_depth_ = <<>> THEN [m EXCEPT !.undefined_ = TRUE]
  ELSE IF /\ m.current_error_ # "user_halt"
          /\ m.recursion_current_depth_
               = m.recursion_target_depth_[Len(m.recursion_target_depth_)]
    THEN [m EXCEPT !.recursion_target_depth_ = Prefix(@, Len(@) - 1)]
    ELSE m

\* what run, step, resume and call do after internal_run has returned
pop_target_if_reached(m) ==
  IF ~m.returns_ THEN m
  ELSE IF m.recursion_target_depth_ = <<>> THEN [m EXCEPT !.undefined_ = TRUE]
  ELSE IF m.recursion_current_depth_
            = m.recursion_target_depth_[Len(m.recursion_target_depth_)]
    THEN [m EXCEPT !.recursion_target_depth_ = Prefix(@, Len(@) - 1)]
    ELSE m

\* internal_run(single_step, recursion_target_depth_.top()) and the pop
run_to_target(p, m, single_step) ==
  IF m.recursion_target_depth_ = <<>> THEN [m EXCEPT !.undefined_ = TRUE]
  ELSE pop_target_if_reached(
         internal_run(p, m, single_step,
                      m.recursion_target_depth_[Len(m.recursion_target_depth_)],
                      MaxFuel))

\* step with the test of current_error_ forgotten
step_unlatched(p, m) ==
  IF ~is_ready(m) THEN [m EXCEPT !.current_error_ = "not_ready"]
  ELSE IF is_done(m) THEN [m EXCEPT !.current_error_ = "is_done"]
  ELSE run_to_target(p, m, TRUE)

step(p, m) ==
  IF ~is_ready(m) THEN [m EXCEPT !.current_error_ = "not_ready"]
  ELSE IF is_done(m) THEN [m EXCEPT !.current_error_ = "is_done"]
  ELSE IF m.current_error_ # "none" THEN m
  ELSE run_to_target(p, m, TRUE)

run(p, m, inputs) ==
  IF ~begin_succeeds(p, inputs) THEN begin(p, m, inputs)
  ELSE run_to_target(p, begin(p, m, inputs), FALSE)

\* resume with the test of is_done() forgotten
resume_of_done_machine(p, m) ==
  IF ~is_ready(m) THEN [m EXCEPT !.current_error_ = "not_ready"]
  ELSE IF m.current_error_ # "none" THEN m
  ELSE run_to_target(p, m, FALSE)

resume(p, m) ==
  IF ~is_ready(m) THEN [m EXCEPT !.current_error_ = "not_ready"]
  ELSE IF is_done(m) THEN [m EXCEPT !.current_error_ = "is_done"]
  ELSE IF m.current_error_ # "none" THEN m
  ELSE run_to_target(p, m, FALSE)

\* call(index): no test of the recursion depth precedes the push
call(p, m, index) ==
  IF ~is_ready(m) THEN [m EXCEPT !.current_error_ = "not_ready"]
  ELSE IF m.current_error_ # "none" THEN m
  ELSE run_to_target(
         p,
         bytecodes_pointer_push(
           [m EXCEPT !.recursion_target_depth_ =
                       Append(@, m.recursion_current_depth_),
                     !.undefined_ =
                       m.recursion_current_depth_ >= RecursionMaxDepth],
           p.dictionary_bytecodes_[index + 1] - BOUND_DICTIONARY),
         FALSE)

\* count_reset leaving count_reads_ as it is
count_reset_keeping_reads(m) ==
  [m EXCEPT !.count_instructions_ = 0, !.count_writes_ = 0]

count_reset(m) ==
  [m EXCEPT !.count_instructions_ = 0, !.count_reads_ = 0, !.count_writes_ = 0]

current_bytecode_position(p, m) ==
  IF m.recursion_current_depth_ = 0 THEN -1
  ELSE IF bytecodes_pointer_where(m)
            < segment_length(p, bytecodes_pointer_which(m))
    THEN bytecode_position(p, m)
    ELSE -1

(***************************************************************************)
(* The machines of the model: one source per behaviour, compiled by the    *)
(* constructor, then any sequence of public calls.                         *)
(***************************************************************************)
Sources ==
  { "1 pause 2 pause 3",
    "3 0 do i loop",
    ": foo 1 if exit then 2 ; foo 3",
    ": foo 2 0 do exit loop 9 ; foo 3",
    ": w 7 drop ; 3 0 do i pause loop",
    "1 halt 2",
    ": h halt ; 2 0 do 1 if h then loop",
    "drop",
    "1 begin dup again",
    ": r recurse ; r",
    ": d pause recurse ; : w 7 drop ; d",
    "2 begin dup while 1- pause repeat",
    "3 begin 1- dup 0= until",
    "input x output o int8 x b-> stack 2 x #b-> o",
    "variable v 5 v ! 2 v +! v @",
    "6 0 do i 2 pause +loop",
    "0 if 1 else 2 then 1 if 3 pause else 4 then",
    "input x input y y b-> stack",
    ": r 1 0 do r loop ; r" }

\* the maps a caller passes to begin(inputs) and run(inputs)
InputMaps ==
  { [n \in {} |-> <<>>],
    [n \in {"x"} |-> <<5, 254, 7>>] }

VARIABLES
  source_,                  \* the source text of the machine
  tokenized_,               \* its tokens, as the constructor compiled them
  bytecodes_, bytecodes_offsets_,
  dictionary_names_, dictionary_bytecodes_,
  variable_names_, input_names_, output_names_, output_dtypes_,
  stack_buffer_, stack_depth_,
  variables_, current_inputs_, current_outputs_,
  is_ready_,
  current_which_, current_where_, recursion_current_depth_,
  recursion_target_depth_,
  do_loop_, do_current_depth_,
  current_error_,
  count_instructions_, count_reads_, count_writes_,
  undefined_,               \* the code has accessed memory outside an array
  op_,                      \* the last public call made on the machine
  inputs_,                  \* the map given to the last begin or run
  found_,                   \* the current_error_ that call found
  index_,                   \* the word the last call(index) named, or -1
  mode_,                    \* what the calls since the last begin/run were
  clock_,                   \* the length of the session so far
  builder_,                 \* a layout builder (LayoutBuilder.h), if one is used
  calls_                    \* the calls made on it since it was new or cleared

program_vars ==
  <<source_, tokenized_, bytecodes_, bytecodes_offsets_, dictionary_names_,
    dictionary_bytecodes_, variable_names_, input_names_, output_names_,
    output_dtypes_>>

machine_vars ==
  <<stack_buffer_, stack_depth_, variables_, current_inputs_,
    current_outputs_, is_ready_, current_which_, current_where_,
    recursion_current_depth_, recursion_target_depth_, do_loop_,
    do_current_depth_, current_error_, count_instructions_, count_reads_,
    count_writes_, undefined_>>

builder_vars == <<builder_, calls_>>

vars ==
  <<program_vars, machine_vars, op_, found_, index_, inputs_, mode_, clock_,
    builder_vars>>

\* no layout builder is used beside the machine
NoBuilder ==
  /\ builder_ = [kind |-> "none"]
  /\ calls_ = <<>>

\* the compiled program of the machine
P ==
  [bytecodes_ |-> bytecodes_, bytecodes_offsets_ |-> bytecodes_offsets_,
   dictionary_names_ |-> dictionary_names_,
   dictionary_bytecodes_ |-> dictionary_bytecodes_,
   variable_names_ |-> variable_names_, input_names_ |-> input_names_,
   output_names_ |-> output_names_, output_dtypes_ |-> output_dtypes_]

\* the machine
M ==
  [stack_buffer_ |-> stack_buffer_, stack_depth_ |-> stack_depth_,
   variables_ |-> variables_, current_inputs_ |-> current_inputs_,
   current_outputs_ |-> current_outputs_, is_ready_ |-> is_ready_,
   current_which_ |-> current_which_, current_where_ |-> current_where_,
   recursion_current_depth_ |-> recursion_current_depth_,
   recursion_target_depth_ |-> recursion_target_depth_,
   do_loop_ |-> do_loop_, do_current_depth_ |-> do_current_depth_,
   current_error_ |-> current_error_,
   count_instructions_ |-> count_instructions_,
   count_reads_ |-> count_reads_, count_writes_ |-> count_writes_,
   undefined_ |-> undefined_, returns_ |-> TRUE]

\* the machine a constructor leaves, for a program with n variables
constructed(n) ==
  [stack_buffer_ |-> <<>>, stack_depth_ |-> 0,
   variables_ |-> [k \in 1..n |-> 0], current_inputs_ |-> <<>>,
   current_outputs_ |-> <<>>, is_ready_ |-> FALSE,
   current_which_ |-> <<>>, current_where_ |-> <<>>,
   recursion_current_depth_ |-> 0, recursion_target_depth_ |-> <<>>,
   do_loop_ |-> <<>>, do_current_depth_ |-> 0, current_error_ |-> "none",
   count_instructions_ |-> 0, count_reads_ |-> 0, count_writes_ |-> 0,
   undefined_ |-> FALSE, returns_ |-> TRUE]

\* the machine becomes r
Install(r) ==
  /\ stack_buffer_' = r.stack_buffer_
  /\ stack_depth_' = r.stack_depth_
  /\ variables_' = r.variables_
  /\ current_inputs_' = r.current_inputs_
  /\ current_outputs_' = r.current_outputs_
  /\ is_ready_' = r.is_ready_
  /\ current_which_' = r.current_which_
  /\ current_where_' = r.current_where_
  /\ recursion_current_depth_' = r.recursion_current_depth_
  /\ recursion_target_depth_' = r.recursion_target_depth_
  /\ do_loop_' = r.do_loop_
  /\ do_current_depth_' = r.do_current_depth_
  /\ current_error_' = r.current_error_
  /\ count_instructions_' = r.count_instructions_
  /\ count_reads_' = r.count_reads_
  /\ count_writes_' = r.count_writes_
  /\ undefined_' = r.undefined_

\* a machine constructed from one of the sources
InitFrom(sources) ==
  /\ source_ \in sources
  /\ tokenized_ = tokenize(source_).tokenized
  /\ LET parsed == compile(tokenized_)
         \* the constructor throws when the source does not compile: no
         \* machine exists, the state stands for the exception
         c == IF parsed.ok THEN parsed
              ELSE [ok |-> FALSE, bytecodes_ |-> <<>>,
                    bytecodes_offsets_ |-> <<0, 0>>,
                    dictionary_names_ |-> <<>>, dictionary_bytecodes_ |-> <<>>,
                    variable_names_ |-> <<>>, input_names_ |-> <<>>,
                    output_names_ |-> <<>>, output_dtypes_ |-> <<>>]
     IN /\ bytecodes_ = c.bytecodes_
        /\ bytecodes_offsets_ = c.bytecodes_offsets_
        /\ dictionary_names_ = c.dictionary_names_
        /\ dictionary_bytecodes_ = c.dictionary_bytecodes_
        /\ variable_names_ = c.variable_names_
        /\ input_names_ = c.input_names_
        /\ output_names_ = c.output_names_
        /\ output_dtypes_ = c.output_dtypes_
        /\ stack_buffer_ = <<>>
        /\ stack_depth_ = 0
        /\ variables_ = [k \in 1..Len(c.variable_names_) |-> 0]
        /\ current_inputs_ = <<>>
        /\ current_outputs_ = <<>>
        /\ is_ready_ = FALSE
        /\ current_which_ = <<>>
        /\ current_where_ = <<>>
        /\ recursion_current_depth_ = 0
        /\ recursion_target_depth_ = <<>>
        /\ do_loop_ = <<>>
        /\ do_current_depth_ = 0
        /\ current_error_ = "none"
        /\ count_instructions_ = 0
        /\ count_reads_ = 0
        /\ count_writes_ = 0
        /\ undefined_ = FALSE
        /\ op_ = IF c.ok THEN "new" ELSE "invalid_argument"
        /\ found_ = "none"
        /\ index_ = -1
        /\ inputs_ = [n \in {} |-> <<>>]
        /\ mode_ = "new"
        /\ clock_ = 0

Init == InitFrom(Sources) /\ NoBuilder

\* the session begun by the last begin or run is over: the program is done,
\* has halted or has failed
Finished ==
  ~is_ready_ \/ recursion_current_depth_ = 0 \/ current_error_ # "none"

\* a public call is made: the machine exists and is usable, and the call
\* returns
Called(name, r) ==
  /\ op_ # "invalid_argument"
  /\ ~undefined_
  /\ clock_ < MaxClock
  /\ r.returns_
  /\ clock_' = clock_
                + (IF name \in {"begin", "run", "reset", "count_reset"}
                     THEN RestartTicks ELSE 0)
                + (IF r.count_instructions_ > count_instructions_
                     THEN r.count_instructions_ - count_instructions_ ELSE 1)
  /\ Install(r)
  /\ op_' = name
  /\ found_' = current_error_
  /\ UNCHANGED <<program_vars, builder_vars>>

Begin ==
  \E inputs \in InputMaps :
    /\ Called("begin", begin(P, M, inputs))
    /\ index_' = -1
    /\ inputs_' = inputs
    /\ mode_' = IF begin_succeeds(P, inputs) THEN "step" ELSE "failed"

Run ==
  \E inputs \in InputMaps :
    /\ Called("run", run(P, M, inputs))
    /\ index_' = -1
    /\ inputs_' = inputs
    /\ mode_' = IF begin_succeeds(P, inputs) THEN "resume" ELSE "failed"

Step ==
  /\ Called("step", step(P, M))
  /\ index_' = -1
  /\ mode_' = IF mode_ = "step" /\ ~Finished THEN "step" ELSE "mixed"
  /\ UNCHANGED inputs_

Resume ==
  /\ Called("resume", resume(P, M))
  /\ index_' = -1
  /\ mode_' = IF mode_ = "resume" /\ ~Finished THEN "resume" ELSE "mixed"
  /\ UNCHANGED inputs_

Call ==
  \E index \in 0..(Len(dictionary_names_) - 1) :
    /\ Called("call", call(P, M, index))
    /\ index_' = index
    /\ mode_' = "mixed"
    /\ UNCHANGED inputs_

Reset ==
  /\ Called("reset", reset(M))
  /\ index_' = -1
  /\ mode_' = "reset"
  /\ UNCHANGED inputs_

CountReset ==
  /\ Called("count_reset", count_reset(M))
  /\ index_' = -1
  /\ UNCHANGED <<inputs_, mode_>>

Next == Begin \/ Run \/ Step \/ Resume \/ Call \/ Reset \/ CountReset

Spec == Init /\ [][Next]_vars

(***************************************************************************)
(* A second family of machines: short programs over ranges of operands,    *)
(* for what the words compute.  A session is begin() or run() on the new   *)
(* machine and then step().                                                *)
(***************************************************************************)
\* dividends are -MaxDividend .. MaxDividend, divisors -MaxDivisor ..
\* MaxDivisor, and the limits of a do-loop are -1 .. MaxLimit
MaxDividend == 4
MaxDivisor == 3
MaxLimit == 2
MaxItems == 3
MaxText == 48

\* 'a b / 9', 'a b mod 9' and 'a b /mod 9', with the divisions that overflow;
\* 'stop start do i o <- stack loop 9', the indices going to an output, with
\* nested loops and an exit under a loop; typed reads of an input of three
\* bytes
Programs ==
  { ToString(a) \o " " \o ToString(b) \o " " \o w \o " 9" :
      a \in (-MaxDividend)..MaxDividend, b \in (-MaxDivisor)..MaxDivisor,
      w \in {"/", "mod", "/mod"} }
    \cup { "-2147483647 1- -1 /", "-2147483647 1- -1 mod",
           "-2147483647 1- -1 /mod", "2147483646 2147483647 mod" }
    \cup { "output o int8 " \o ToString(stop) \o " " \o ToString(start)
             \o " do i o <- stack loop 9" :
             stop \in (-1)..MaxLimit, start \in (-1)..MaxLimit }
    \cup { "1 0 do 2 1 do 3 2 do k j i loop loop loop",
           "1 0 do 2 1 do 7 if j i then loop loop",
           ": f exit ; 3 0 do f 7 loop" }
    \cup { "input x x b-> stack x h-> stack x b-> stack",
           "input x x i-> stack",
           "input x 1 4 x #b-> stack",
           "input x output o int8 x b-> o x i-> o",
           "input x output o int8 1 2 x #h-> o" }
    \cup { "input x output q " \o t[1] \o " " \o ToString(n) \o " x #"
             \o t[2] \o " q" :
             n \in 0..MaxItems,
             t \in { <<"int8", "b->">>, <<"uint8", "B->">>,
                     <<"int16", "h->">>, <<"int16", "!h->">>,
                     <<"uint16", "!H->">>, <<"uint8", "!B->">> } }
    \cup { "i", "j", "k" }
    \cup { t[1] \o w \o t[2] :
             w \in {"i", "j", "k"},
             t \in { <<"1 0 do ", " loop">>,
                     <<"1 0 do 1 0 do ", " loop loop">>,
                     <<"1 0 do 1 if ", " then loop">>,
                     <<"1 0 do 0 if else ", " then loop">>,
                     <<"1 0 do begin ", " 1 until loop">>,
                     <<"1 0 do begin 0 while ", " repeat loop">>,
                     <<": f ", " ; 1 0 do f loop">>,
                     <<"1 0 do : f ", " ; f loop">>,
                     <<": f 1 0 do ", " loop ; f">>,
                     <<"1 0 do 1 0 do loop ", " loop">>,
                     <<"1 0 do 1 0 do 1 0 do ", " loop loop loop">> } }
    \cup { ToString(n) \o " begin dup while 1- 7 swap repeat 9" :
             n \in 0..MaxLimit }
    \cup { ToString(n) \o t : n \in 0..MaxLimit,
                              t \in {" if 7 then 9", " if 7 else 8 then 9"} }
    \cup { "1\n2", "1 2\n 3 4", "\n5", "1 \n\n2 3", " 1  2 +" }
    \cup { "input x output q int8 1 2 3 3 x #b-> stack",
           "1 if 1 if 1 if 1 if 2 else 3 then then then then" }
    \cup { "", ": e ; 1 if then e", "1 if 2 then : foo 3 ; foo",
           ": a 1 if 2 0 do i loop then ; a", ": a : b 1 ; b ; a",
           ": r dup if 1- recurse then ; 1 r",
           "input x output q int8 x b-> q x b-> q",
           "input x output q int16 x !h-> q x b-> stack" }

\* begin() or run() on the new machine, then steps
NextPrograms ==
  \/ op_ = "new" /\ Begin
  \/ op_ = "new" /\ Run
  \/ Step

\* a new machine of the second family
InitPrograms == InitFrom(Programs) /\ NoBuilder

SpecPrograms == InitPrograms /\ [][NextPrograms]_vars

(***************************************************************************)
(* What the claims speak of.                                               *)
(***************************************************************************)
\* the live cells of the data stack of machine m, bottom first
stack(m) == Prefix(m.stack_buffer_, m.stack_depth_)

\* the source of the machine contains the word
HasWord(word) == Contains(tokenized_, word)

\* the instruction at which the machine stands is the one with this code
StandsAt(code) ==
  /\ is_ready_
  /\ recursion_current_depth_ > 0
  /\ pointer_is_valid(P, M)
  /\ bytecode_is_valid(P, M)
  /\ ~do_is_current(M)
  /\ bytecode_get(P, M) = code

\* the operand of the instruction at which the machine stands
OperandHere == bytecodes_[bytecode_position(P, M) + 2]

\* the bytecodes of the segment of dictionary word index
WordBody(index) ==
  LET which == dictionary_bytecodes_[index + 1] - BOUND_DICTIONARY
  IN SubSeq(bytecodes_, bytecodes_offsets_[which + 1] + 1,
            bytecodes_offsets_[which + 2])

\* the word is straight-line code: it holds no pause, no halt and no
\* reference to another segment
FlatWord(index) ==
  \A n \in 1..Len(WordBody(index)) :
    /\ WordBody(index)[n] \notin {CODE_PAUSE, CODE_HALT, CODE_EXIT}
    /\ WordBody(index)[n] < BOUND_DICTIONARY

\* what run() of program p leaves, on a machine fresh from the constructor
RunOf(p) == run(p, constructed(Len(p.variable_names_)), inputs_)

\* machine m ended as machine r did
SameOutcome(m, r) ==
  /\ stack(m) = stack(r)
  /\ m.variables_ = r.variables_
  /\ m.current_outputs_ = r.current_outputs_
  /\ m.current_error_ = r.current_error_

\* the program of the machine with every 'pause' taken out of the source
WithoutPause ==
  compile(SelectSeq(tokenized_, LAMBDA w : w # "pause"))

(***************************************************************************)
(* C1: between any two instructions of a session the depth of the data     *)
(* stack is in 0 .. stack_max_depth: a pop from too few cells or a push    *)
(* onto a full stack sets an error and leaves the depth in that range.     *)
(***************************************************************************)
StackDepthInRange == stack_depth_ \in 0..StackMaxDepth

\* a push found the stack full and was refused
PushRefusedOnFullStack ==
  /\ current_error_ = "stack_overflow"
  /\ stack_depth_ = StackMaxDepth
  /\ found_ = "none"

(***************************************************************************)
(* C2: the recursion stack never holds more than recursion_max_depth       *)
(* segment frames, whoever pushed them: a segment reference, an if/while   *)
(* body, begin(), or call() on a machine suspended at any depth.           *)
(***************************************************************************)
RecursionDepthBounded == recursion_current_depth_ <= RecursionMaxDepth

(***************************************************************************)
(* C3: every frame of the do-loop stack was pushed at a recursion depth    *)
(* that is still there: abs_recursion_depth <= the current depth.          *)
(***************************************************************************)
DoFramesWithinDepth ==
  \A k \in 1..do_current_depth_ :
    do_loop_[k].abs_recursion_depth <= recursion_current_depth_

(***************************************************************************)
(* C4: a step() or resume() that finds current_error_ other than none      *)
(* returns an error and executes nothing: data stack, variables, recursion *)
(* stack, do-loop stack, outputs and count_instructions_ stay as they were.*)
(***************************************************************************)
RefusedCallChangesNothing ==
  [][ (current_error_ # "none" /\ op_' \in {"step", "resume"}) =>
        /\ current_error_' # "none"
        /\ stack(M)' = stack(M)
        /\ UNCHANGED <<variables_, current_outputs_, count_instructions_,
                       current_which_, current_where_,
                       recursion_current_depth_, do_loop_,
                       do_current_depth_>> ]_vars

\* a step was refused on a machine whose program had failed in mid-course
StepRefusedAfterError ==
  /\ op_ = "step"
  /\ found_ = "stack_underflow"
  /\ recursion_current_depth_ > 0

(***************************************************************************)
(* C5: once current_error_ is not none it keeps its value through every    *)
(* later step(), resume() and call(), until reset(), begin() or run().     *)
(***************************************************************************)
ErrorIsSticky ==
  [][ (current_error_ # "none" /\ op_' \in {"step", "resume", "call"}) =>
        current_error_' = current_error_ ]_vars

(***************************************************************************)
(* C6: an invocation that executes 'halt' returns with current_error_ =    *)
(* user_halt, is_ready_ false, and the recursion stack and the do-loop     *)
(* stack empty, at whatever depth and inside whatever loops the halt was.  *)
(***************************************************************************)
HaltStopsTheMachine ==
  /\ [](current_error_ = "user_halt" =>
          /\ ~is_ready_
          /\ recursion_current_depth_ = 0
          /\ current_which_ = <<>>
          /\ do_current_depth_ = 0
          /\ do_loop_ = <<>>)
  /\ [][ (op_' = "step" /\ current_error_ = "none" /\ StandsAt(CODE_HALT)) =>
           current_error_' = "user_halt" ]_vars

\* a halt was executed in a word called from inside a do-loop
HaltedInsideLoop ==
  /\ current_error_ = "user_halt"
  /\ source_ = ": h halt ; 2 0 do 1 if h then loop"

(***************************************************************************)
(* C7: for a program without pause or halt, begin() and then step() until  *)
(* the program is done or has failed ends with the data stack, variables,  *)
(* outputs and current_error_ that run() of the same program ends with.    *)
(***************************************************************************)
SteppingEndsAsRunDoes ==
  (/\ mode_ = "step"
   /\ ~HasWord("pause") /\ ~HasWord("halt")
   /\ Finished
   /\ RunOf(P).returns_)
    => SameOutcome(M, RunOf(P))

CallLeavesControlState ==
  [][ (/\ op_' = "call"
       /\ mode_ = "resume" /\ ~Finished
       /\ FlatWord(index_')
       /\ current_error_' = "none" /\ is_ready_' /\ ~undefined_')
        => UNCHANGED <<recursion_current_depth_, current_which_,
                       current_where_, do_loop_, do_current_depth_,
                       recursion_target_depth_>> ]_vars

(***************************************************************************)
(* C10: 'exit' leaves the word it is in: the frame of the word and of the  *)
(* bodies nested in it are gone when the instruction has executed, so that *)
(* execution goes on in the caller; under step() as under run().           *)
(***************************************************************************)
ExitLeavesTheWord ==
  [][ (op_' = "step" /\ current_error_ = "none" /\ StandsAt(CODE_EXIT))
        => recursion_current_depth_'
             <= recursion_current_depth_ - OperandHere - 1 ]_vars

(***************************************************************************)
(* C11: 'exit' takes from the do-loop stack only the frames of loops       *)
(* entered inside the word it leaves: the frames of the do-loops around    *)
(* the call stay as they are, and a loop whose body calls a word that      *)
(* exits still runs all of its iterations.                                 *)
(***************************************************************************)
ExitKeepsEnclosingLoops ==
  /\ [][ (op_' = "step" /\ current_error_ = "none" /\ StandsAt(CODE_EXIT)) =>
           \A k \in 1..do_current_depth_ :
             do_loop_[k].abs_recursion_depth
                 < recursion_current_depth_ - OperandHere
               => /\ k <= do_current_depth_'
                  /\ do_loop_'[k] = do_loop_[k] ]_vars
  /\ []((source_ = ": f exit ; 3 0 do f 7 loop" /\ op_ = "run")
           => stack(M) = <<7, 7, 7>>)

(***************************************************************************)
(* C12: 'stop start do body loop' executes body max(0, stop - start)       *)
(* times, with i = start, start + 1, ..., stop - 1 in that order; after    *)
(* the loop the do-loop stack is as deep as before the loop and execution  *)
(* goes on after the loop.  The body of the programs writes i to output o. *)
(***************************************************************************)
LoopRunsStopMinusStartTimes ==
  (/\ Len(tokenized_) >= 6
   /\ tokenized_[1] = "output" /\ tokenized_[6] = "do" /\ ~undefined_) =>
    LET stop == is_integer(tokenized_[4]).value
        start == is_integer(tokenized_[5]).value
        expected == [k \in 1..(IF stop > start THEN stop - start ELSE 0)
                       |-> start + k - 1]
        written == IF current_outputs_ = <<>> THEN <<>>
                                             ELSE current_outputs_[1]
    IN /\ Len(written) <= Len(expected)
       /\ written = SubSeq(expected, 1, Len(written))
       /\ (is_ready_ /\ recursion_current_depth_ = 0
              /\ current_error_ = "none")
            => /\ written = expected
               /\ stack(M) = <<9>>
               /\ do_current_depth_ = 0

(***************************************************************************)
(* C13: inside nested do-loops i, j and k push the index of the innermost, *)
(* the second and the third enclosing loop, also from an 'if' body nested  *)
(* in the body of the loop.  In the programs the loops nest one in the     *)
(* other and the loop at nesting level d runs over the index d - 1 alone.  *)
(***************************************************************************)
IndexWordsPushTheirLoop ==
  /\ [][ \A n \in 0..2 :
           (/\ op_' = "step" /\ HasWord("j") /\ HasWord("i")
            /\ current_error_ = "none" /\ current_error_' = "none"
            /\ StandsAt(CODE_I + n))
             => stack(M)' =
                  Append(stack(M),
                         Cardinality({t \in 1..Len(tokenized_) :
                                        tokenized_[t] = "do"}) - 1 - n) ]_vars
  /\ []((HasWord("j") /\ HasWord("i") /\ op_ = "run")
           => stack(M) = IF HasWord("k") THEN <<0, 1, 2>> ELSE <<0, 1>>)

\* j has pushed the index of the outer loop from inside the 'if' body
PushedOuterIndexFromIfBody ==
  /\ source_ = "1 0 do 2 1 do 7 if j i then loop loop"
  /\ op_ = "step"
  /\ stack(M) = <<0>>
  /\ recursion_current_depth_ = 4
  /\ current_error_ = "none"

(***************************************************************************)
(* C14: an instruction that fails with a runtime error leaves the machine  *)
(* at that instruction: current_bytecode_position() is the position of the *)
(* opcode that failed.  In 'a 0 / 9' (and mod, /mod) that is position 4.   *)
(***************************************************************************)
ErrorStopsAtTheInstruction ==
  /\ [][ (/\ op_' = "step" /\ current_error_ = "none"
          /\ current_error_' \in
                {"stack_underflow", "stack_overflow", "division_by_zero",
                 "read_beyond", "seek_beyond", "skip_beyond", "rewind_beyond",
                 "recursion_depth_exceeded"})
           => current_bytecode_position(P, M)'
                = current_bytecode_position(P, M) ]_vars
  /\ []((op_ = "run" /\ current_error_ = "division_by_zero")
           => current_bytecode_position(P, M) = 4)

(***************************************************************************)
(* C15: reset(), from any state, leaves the data stack empty, every        *)
(* variable 0, no inputs and no outputs, is_ready_ false, the recursion    *)
(* stack, the do-loop stack and the target-depth stack empty and           *)
(* current_error_ none; the compiled program and the counters stay.        *)
(***************************************************************************)
ResetClearsTheSession ==
  [][ op_' = "reset" =>
        /\ stack_depth_' = 0
        /\ \A n \in DOMAIN variables_' : variables_'[n] = 0
        /\ current_inputs_' = <<>>
        /\ current_outputs_' = <<>>
        /\ ~is_ready_'
        /\ recursion_current_depth_' = 0
        /\ do_current_depth_' = 0
        /\ recursion_target_depth_' = <<>>
        /\ current_error_' = "none"
        /\ UNCHANGED <<program_vars, count_instructions_, count_reads_,
                       count_writes_>> ]_vars

\* a reset after the program had stored 7 in its variable
ResetAfterVariableWasSet ==
  /\ op_ = "reset"
  /\ source_ = "variable v 5 v ! 2 v +! v @"
  /\ count_instructions_ = 5
  /\ variables_ = <<0>>

(***************************************************************************)
(* C16: begin(inputs) fails, and leaves the machine not ready, exactly     *)
(* when the map lacks an input name that the program declares; names of    *)
(* the map that the program does not declare do not matter.  After a       *)
(* failed begin the machine is as reset() leaves it: not ready, no error,  *)
(* the stacks empty.                                                       *)
(***************************************************************************)
BeginFailsOnMissingInput ==
  [][ op_' = "begin" =>
        /\ is_ready_' = (\A n \in 1..Len(input_names_) :
                           input_names_[n] \in DOMAIN inputs_')
        /\ ~is_ready_' =>
              /\ current_error_' = "none"
              /\ stack_depth_' = 0
              /\ recursion_current_depth_' = 0
              /\ do_current_depth_' = 0
              /\ recursion_target_depth_' = <<>> ]_vars

\* a begin failed on a machine that had run its program before
BeginFailedAfterARun ==
  /\ op_ = "begin"
  /\ ~is_ready_
  /\ input_names_ = <<"x">>
  /\ count_reads_ > 0

DivisionByZeroStops ==
  /\ [][ (/\ op_' = "step" /\ current_error_ = "none"
          /\ \E code \in {CODE_DIV, CODE_MOD, CODE_DIVMOD} : StandsAt(code)
          /\ stack_depth_ >= 2 /\ StackCell(M, stack_depth_ - 1) = 0)
           => current_error_' = "division_by_zero" ]_vars
  /\ []((op_ = "run" /\ Len(tokenized_) = 4 /\ tokenized_[2] = "0"
            /\ tokenized_[3] \in {"/", "mod", "/mod"})
           => /\ current_error_ = "division_by_zero"
              /\ ~Contains(stack(M), 9)
              /\ count_instructions_ = 2)

\* a run has ended at a '/mod' by zero
RunEndedAtDivmodByZero ==
  /\ op_ = "run"
  /\ source_ = "-4 0 /mod 9"
  /\ current_error_ = "division_by_zero"
  /\ stack(M) = <<-4, 0>>

(***************************************************************************)
(* C20: a typed read, of one item or repeated, to the stack or to an       *)
(* output, that asks for more bytes than the input has left sets           *)
(* current_error_ to read_beyond, pushes no value and appends nothing to   *)
(* any output.                                                             *)
(***************************************************************************)
ReadBeyondLeavesNothing ==
  /\ [][ LET flags == -bytecode_get(P, M) - 1
             num_items == IF (flags \div 2) % 2 = 1 THEN stack_top(M)
                                                    ELSE 1
             num_bytes == num_items
                            * read_sizeof(((flags \div 8) % 16) * 8)
             input == current_inputs_[OperandHere + 1]
         IN (/\ op_' = "step" /\ current_error_ = "none"
             /\ \E code \in (-128)..(-1) : StandsAt(code)
             /\ num_bytes > Len(input.buf) - input.pos)
              => current_error_' = "read_beyond" ]_vars
  /\ [][ (op_' \in {"step", "run"} /\ current_error_' = "read_beyond")
           => /\ op_' = "step" =>
                   /\ stack_depth_' <= stack_depth_
                   /\ stack(M)' = SubSeq(stack(M), 1, stack_depth_')
                   /\ current_outputs_' = current_outputs_
              /\ op_' = "run" =>
                   /\ source_ = "input x x i-> stack" => stack_depth_' = 0
                   /\ source_ = "input x output o int8 1 2 x #h-> o"
                         => current_outputs_' = << <<>> >> ]_vars
  /\ []((op_ = "run" /\ input_names_ = <<"x">> /\ is_ready_
            /\ output_names_ # <<"q">>)
           => current_error_ = "read_beyond")

\* a repeated read to an output was refused: two int16 of an input of
\* three bytes
RepeatedReadRefused ==
  /\ source_ = "input x output o int8 1 2 x #h-> o"
  /\ op_ = "step"
  /\ current_error_ = "read_beyond"
  /\ stack(M) = <<1>>
  /\ current_outputs_ = << <<>> >>

DecompiledRecompiles ==
  op_ = "new" =>
    /\ decompiled(P).k = "text"
    /\ Len(decompiled(P).out) <= MaxText =>
         LET again == compile(tokenize(decompiled(P).out).tokenized)
         IN /\ again.ok
            /\ again.bytecodes_ = bytecodes_
            /\ again.bytecodes_offsets_ = bytecodes_offsets_

(***************************************************************************)
(* C23: after compiling any program, bytecodes_offsets_[0] = 0, the last   *)
(* offset equals the size of bytecodes_, and the offsets never decrease    *)
(* from one segment to the next; the offsets of an empty segment (an empty *)
(* program, an empty word body, an empty control body) are equal.          *)
(***************************************************************************)
OffsetsBracketBytecodes ==
  /\ bytecodes_offsets_[1] = 0
  /\ bytecodes_offsets_[Len(bytecodes_offsets_)] = Len(bytecodes_)
  /\ \A k \in 1..(Len(bytecodes_offsets_) - 1) :
       bytecodes_offsets_[k] <= bytecodes_offsets_[k + 1]
  /\ source_ = "" => bytecodes_offsets_ = <<0, 0>>
  /\ source_ = ": e ; 1 if then e" => bytecodes_offsets_ = <<0, 5, 5, 5>>
  /\ source_ = ": f exit ; 3 0 do f 7 loop"
       => bytecodes_offsets_ = <<0, 6, 8, 11>>

\* C23 as the claim has it: the offsets increase strictly from each segment
\* to the next, also where a body is empty
OffsetsStrictlyIncrease ==
  \A k \in 1..(Len(bytecodes_offsets_) - 1) :
    bytecodes_offsets_[k] < bytecodes_offsets_[k + 1]

\* a program with an empty word body and an empty 'if' body was compiled
\* and has run to its end
CompiledEmptyBodies ==
  /\ source_ = ": e ; 1 if then e"
  /\ Len(bytecodes_offsets_) = 4
  /\ bytecodes_offsets_[2] = bytecodes_offsets_[3]
  /\ op_ = "run"
  /\ is_ready_ /\ recursion_current_depth_ = 0
  /\ current_error_ = "none"

(***************************************************************************)
(* C24: in the bytecode of a compiled program every slot that holds a      *)
(* segment reference (the call of a user word, `recurse`, the body operand *)
(* of IF, IF_ELSE, DO, DO_STEP, AGAIN, UNTIL, WHILE) has a value           *)
(* b >= BOUND_DICTIONARY with b - BOUND_DICTIONARY < number of segments;   *)
(* a call refers to a word of the dictionary, every segment but the main   *)
(* one is the body of exactly one word or control structure, and the       *)
(* segment holds the bytecode of that body, also where bodies and          *)
(* definitions are nested or interleaved.                                  *)
(***************************************************************************)
SegmentReferencesAreValid ==
  op_ = "new" =>
    LET size == Len(bytecodes_)
        segments == Len(bytecodes_offsets_) - 1
        at(pos) == bytecodes_[pos + 1]
        next(pos) == IF pos + 1 < size THEN at(pos + 1) ELSE 0
        loops == {CODE_AGAIN, CODE_UNTIL, CODE_WHILE}
        width(pos) ==
          IF at(pos) < 0 THEN (IF (-at(pos) - 1) % 2 = 1 THEN 3 ELSE 2)
          ELSE IF at(pos) >= BOUND_DICTIONARY
            THEN (IF next(pos) = CODE_WHILE THEN 3
                  ELSE IF next(pos) \in loops THEN 2 ELSE 1)
          ELSE IF at(pos) = CODE_IF_ELSE THEN 3
          ELSE IF at(pos) \in { CODE_LITERAL, CODE_IF, CODE_DO, CODE_DO_STEP,
                                CODE_EXIT, CODE_PUT, CODE_INC, CODE_GET,
                                CODE_LEN_INPUT, CODE_POS, CODE_END,
                                CODE_SEEK, CODE_SKIP, CODE_WRITE,
                                CODE_LEN_OUTPUT, CODE_REWIND } THEN 2
          ELSE 1
        \* the positions at which an instruction starts
        starts[pos \in 0..size] ==
          /\ pos < size
          /\ \/ \E k \in 1..segments : bytecodes_offsets_[k] = pos
             \/ \E q \in 0..(pos - 1) : starts[q] /\ q + width(q) = pos
        calls == { q \in 0..(size - 1) :
                     starts[q] /\ at(q) >= BOUND_DICTIONARY
                       /\ next(q) \notin loops }
        bodies ==
          { q \in 0..(size - 1) :
              \/ starts[q] /\ at(q) >= BOUND_DICTIONARY /\ next(q) \in loops
              \/ q >= 1 /\ starts[q - 1]
                   /\ at(q - 1) \in {CODE_IF, CODE_IF_ELSE, CODE_DO, CODE_DO_STEP}
              \/ q >= 2 /\ starts[q - 2]
                   /\ \/ at(q - 2) = CODE_IF_ELSE
                      \/ at(q - 2) >= BOUND_DICTIONARY /\ at(q - 1) = CODE_WHILE }
        Segment(k) == SubSeq(bytecodes_, bytecodes_offsets_[k + 1] + 1,
                             bytecodes_offsets_[k + 2])
    IN /\ \A q \in calls \cup bodies :
            /\ at(q) >= BOUND_DICTIONARY
            /\ at(q) - BOUND_DICTIONARY < segments
       /\ \A n \in 1..Len(dictionary_bytecodes_) :
            /\ dictionary_bytecodes_[n] - BOUND_DICTIONARY \in 1..(segments - 1)
            /\ \A q \in bodies : at(q) # dictionary_bytecodes_[n]
            /\ \A o \in 1..Len(dictionary_bytecodes_) :
                 dictionary_bytecodes_[o] = dictionary_bytecodes_[n] => o = n
       /\ \A q \in calls : Contains(dictionary_bytecodes_, at(q))
       /\ \A q \in bodies : \A r \in bodies : at(q) = at(r) => q = r
       /\ \A k \in 1..(segments - 1) :
            \/ Contains(dictionary_bytecodes_, k + BOUND_DICTIONARY)
            \/ \E q \in bodies : at(q) = k + BOUND_DICTIONARY
       /\ \A k \in 0..(segments - 1) :
            bytecodes_offsets_[k + 1] < bytecodes_offsets_[k + 2]
              => starts[bytecodes_offsets_[k + 1]]
       /\ source_ = "1 if 2 then : foo 3 ; foo" =>
            /\ Segment(0) = <<CODE_LITERAL, 1, CODE_IF, BOUND_DICTIONARY + 1,
                              BOUND_DICTIONARY + 2>>
            /\ Segment(1) = <<CODE_LITERAL, 2>>
            /\ Segment(2) = <<CODE_LITERAL, 3>>
            /\ dictionary_bytecodes_ = <<BOUND_DICTIONARY + 2>>
       /\ source_ = ": a 1 if 2 0 do i loop then ; a" =>
            /\ Segment(0) = <<BOUND_DICTIONARY + 1>>
            /\ Segment(1) = <<CODE_LITERAL, 1, CODE_IF, BOUND_DICTIONARY + 2>>
            /\ Segment(2) = <<CODE_LITERAL, 2, CODE_LITERAL, 0, CODE_DO,
                              BOUND_DICTIONARY + 3>>
            /\ Segment(3) = <<CODE_I>>
       /\ source_ = ": a : b 1 ; b ; a" =>
            /\ Segment(0) = <<BOUND_DICTIONARY + 1>>
            /\ Segment(1) = <<BOUND_DICTIONARY + 2>>
            /\ Segment(2) = <<CODE_LITERAL, 1>>
            /\ dictionary_names_ = <<"a", "b">>
            /\ dictionary_bytecodes_ = <<BOUND_DICTIONARY + 1,
                                         BOUND_DICTIONARY + 2>>
       /\ source_ = ": r dup if 1- recurse then ; 1 r" =>
            /\ Segment(0) = <<CODE_LITERAL, 1, BOUND_DICTIONARY + 1>>
            /\ Segment(1) = <<CODE_DUP, CODE_IF, BOUND_DICTIONARY + 2>>
            /\ Segment(2) = <<CODE_SUB1, BOUND_DICTIONARY + 1>>
       /\ source_ = "1 0 do 2 1 do 7 if j i then loop loop" =>
            /\ Segment(1) = <<CODE_LITERAL, 2, CODE_LITERAL, 1, CODE_DO,
                              BOUND_DICTIONARY + 2>>
            /\ Segment(2) = <<CODE_LITERAL, 7, CODE_IF, BOUND_DICTIONARY + 3>>
            /\ Segment(3) = <<CODE_J, CODE_I>>

\* a program whose word holds an 'if' body holding a 'do' body was compiled
CompiledNestedBodies ==
  /\ source_ = ": a 1 if 2 0 do i loop then ; a"
  /\ op_ = "new"
  /\ Len(bytecodes_offsets_) = 5
  /\ bytecodes_[Len(bytecodes_)] = CODE_I

(***************************************************************************)
(* C25: every step() call that starts with is_ready true, is_done false    *)
(* and current_error = none, and that ends without an error, executes      *)
(* exactly one instruction: count_instructions increases by exactly 1,     *)
(* whatever the instruction.                                               *)
(***************************************************************************)
StepCountsOneInstruction ==
  [][ (/\ op_' = "step"
       /\ is_ready_ /\ ~is_done(M) /\ current_error_ = "none"
       /\ current_error_' = "none" /\ ~undefined_')
        => count_instructions_' = count_instructions_ + 1 ]_vars

(***************************************************************************)
(* C26: a program whose segment calls or do-loop bodies nest deeper than   *)
(* recursion_max_depth terminates.  The instruction that would enter the   *)
(* segment one too deep sets current_error_ to recursion_depth_exceeded    *)
(* and enters nothing; run(), step() and resume() never leave more frames  *)
(* on the recursion stack or on the do-loop stack than they hold; and      *)
(* after the error a reset() followed by a run() starts the program afresh *)
(* and ends as the first run did.                                          *)
(***************************************************************************)
RecursionLimitIsAnError ==
  /\ [][ (/\ op_' \in {"run", "step", "resume"}
          /\ ~undefined_'
          /\ recursion_current_depth_ <= RecursionMaxDepth
          /\ do_current_depth_ <= RecursionMaxDepth)
           => /\ recursion_current_depth_' <= RecursionMaxDepth
              /\ Len(current_which_') <= RecursionMaxDepth
              /\ Len(current_where_') <= RecursionMaxDepth
              /\ do_current_depth_' <= RecursionMaxDepth
              /\ Len(do_loop_') <= RecursionMaxDepth ]_vars
  /\ [][ (/\ op_' = "step"
          /\ is_ready_ /\ current_error_ = "none"
          /\ recursion_current_depth_ = RecursionMaxDepth
          /\ bytecode_is_valid(P, M) /\ ~is_segment_done(P, M)
          /\ bytecode_get(P, M) >= BOUND_DICTIONARY
          /\ do_is_current(M) => do_i(M) < do_stop(M))
           => /\ current_error_' = "recursion_depth_exceeded"
              /\ recursion_current_depth_' = RecursionMaxDepth
              /\ current_which_' = current_which_
              /\ stack(M)' = stack(M)
              /\ do_loop_' = do_loop_ ]_vars
  /\ []((op_ = "run" /\ source_ \in {": r recurse ; r", ": r 1 0 do r loop ; r"})
          => /\ current_error_ = "recursion_depth_exceeded"
             /\ is_ready_
             /\ recursion_current_depth_ = RecursionMaxDepth)
  /\ [][ (op_ = "reset" /\ op_' = "run" /\ source_ = ": r recurse ; r")
           => /\ current_error_' = "recursion_depth_exceeded"
              /\ recursion_current_depth_' = RecursionMaxDepth
              /\ count_instructions_'
                   = count_instructions_ + (RecursionMaxDepth - 1)
              /\ stack_depth_' = 0 ]_vars

\* the word that recurses unconditionally was run to the error, the machine
\* reset, and the program run again
RanAgainAfterDepthError ==
  /\ source_ = ": r recurse ; r"
  /\ op_ = "run"
  /\ current_error_ = "recursion_depth_exceeded"
  /\ count_instructions_ = 2 * (RecursionMaxDepth - 1)
  /\ clock_ > 3 * RestartTicks

(***************************************************************************)
(* C27: `i` compiles only where at least one `do` encloses it inside the   *)
(* same word definition (or the top level), `j` only inside two nested     *)
(* `do`s and `k` only inside three.  The bodies of if and begin do not     *)
(* change the count, and a `: name ... ;` definition starts it again at 0. *)
(* A program that is otherwise well formed compiles exactly when each of   *)
(* its index words has that many unclosed `do`s before it since the start  *)
(* of the innermost definition that holds it.                              *)
(***************************************************************************)
IndexWordsNeedTheirLoops ==
  LET \* the counts of unclosed 'do's after n tokens, one count for each
      \* open definition, the innermost last
      open[n \in 0..Len(tokenized_)] ==
        IF n = 0 THEN <<0>>
        ELSE LET before == open[n - 1]
                 top == Len(before)
                 word == tokenized_[n]
             IN IF word = ":" THEN Append(before, 0)
                ELSE IF word = ";" THEN SubSeq(before, 1, top - 1)
                ELSE IF word = "do" THEN [before EXCEPT ![top] = @ + 1]
                ELSE IF word \in {"loop", "+loop"}
                  THEN [before EXCEPT ![top] = @ - 1]
                ELSE before
      needs(word) == CASE word = "i" -> 1 [] word = "j" -> 2
                       [] word = "k" -> 3 [] OTHER -> 0
      enclosed(n) == open[n - 1][Len(open[n - 1])]
  IN /\ (op_ # "invalid_argument")
          <=> \A n \in 1..Len(tokenized_) : needs(tokenized_[n]) <= enclosed(n)
     /\ source_ \in {"1 0 do 1 if i then loop", "1 0 do begin i 1 until loop",
                     "1 0 do 1 0 do j loop loop", ": f 1 0 do i loop ; f",
                     "1 0 do 1 0 do loop i loop"}
          => op_ # "invalid_argument"
     /\ source_ \in {"i", "1 0 do j loop", "1 0 do 1 0 do k loop loop",
                     ": f i ; 1 0 do f loop", "1 0 do : f i ; f loop",
                     "1 0 do 1 0 do loop j loop"}
          => op_ = "invalid_argument"

\* the constructor refused a word whose `i` stands in no loop of the word,
\* the word being called from a loop
RefusedIndexInWordBody ==
  /\ source_ = ": f i ; 1 0 do f loop"
  /\ op_ = "invalid_argument"

(***************************************************************************)
(* C28: in no reachable state do two frames of the do-loop stack carry the *)
(* same abs_recursion_depth, and the frame on top belongs to the current   *)
(* depth only while the instruction pointer of that depth stands on the    *)
(* body reference of a DO or DO_STEP.                                      *)
(***************************************************************************)
OneDoFramePerDepth ==
  /\ \A a \in 1..do_current_depth_ : \A b \in 1..do_current_depth_ :
       do_loop_[a].abs_recursion_depth = do_loop_[b].abs_recursion_depth
         => a = b
  /\ (is_ready_ /\ recursion_current_depth_ > 0 /\ ~undefined_
        /\ do_is_current(M) /\ ~is_segment_done(P, M))
       => /\ bytecodes_pointer_where(M) >= 2
          /\ bytecode_get(P, M) >= BOUND_DICTIONARY
          /\ bytecodes_[bytecode_position(P, M)] \in {CODE_DO, CODE_DO_STEP}

(***************************************************************************)
(* C29: count_instructions_, count_reads_ and count_writes_ never decrease *)
(* across begin, run, step, resume, call and reset; count_reset sets all   *)
(* of them to 0 and changes nothing else of the machine; reset and begin   *)
(* leave them unchanged.                                                   *)
(***************************************************************************)
CountersOnlyGrow ==
  /\ [][ op_' # "count_reset"
           => /\ count_instructions_' >= count_instructions_
              /\ count_reads_' >= count_reads_
              /\ count_writes_' >= count_writes_ ]_vars
  /\ [][ op_' = "count_reset"
           => /\ count_instructions_' = 0
              /\ count_reads_' = 0
              /\ count_writes_' = 0
              /\ stack(M)' = stack(M)
              /\ UNCHANGED << variables_, current_inputs_, current_outputs_,
                              is_ready_, current_which_, current_where_,
                              recursion_current_depth_, do_loop_,
                              do_current_depth_, current_error_ >> ]_vars
  /\ [][ op_' \in {"reset", "begin"}
           => UNCHANGED << count_instructions_, count_reads_,
                           count_writes_ >> ]_vars

\* the counters were cleared after a read and a write, the outputs of the
\* run still there
CountersClearedAfterIO ==
  /\ op_ = "count_reset"
  /\ count_instructions_ = 0 /\ count_reads_ = 0 /\ count_writes_ = 0
  /\ Len(current_outputs_) = 1
  /\ Len(current_outputs_[1]) = 2
  /\ stack_depth_ = 1

(***************************************************************************)
(* C30: `begin pre while post repeat` executes pre, then WHILE pops the    *)
(* predicate.  If it is zero the loop ends: post is not entered and the    *)
(* position moves behind the loop.  If it is nonzero post is entered and   *)
(* the position of the enclosing segment is set back to pre, which         *)
(* executes again when post has ended.  post executes as many times as     *)
(* nonzero predicates are seen before the first zero: the program          *)
(* `n begin dup while 1- 7 swap repeat 9` leaves n sevens, 0 and 9.        *)
(***************************************************************************)
WhileRepeatsOnNonzero ==
  /\ [][ LET depth == recursion_current_depth_
             where == current_where_[depth]
             post == OperandHere - BOUND_DICTIONARY
             ends == where + 2 >= segment_length(P, current_which_[depth])
         IN (/\ op_' = "step" /\ current_error_ = "none"
             /\ StandsAt(CODE_WHILE) /\ ~is_segment_done(P, M)
             /\ stack_depth_ > 0
             /\ depth < RecursionMaxDepth)
              => /\ current_error_' = "none"
                 /\ stack(M)' = SubSeq(stack(M), 1, stack_depth_ - 1)
                 /\ stack_top(M) = 0 =>
                      IF ends THEN recursion_current_depth_' = depth - 1
                      ELSE /\ recursion_current_depth_' = depth
                           /\ current_where_'[depth] = where + 2
                 /\ stack_top(M) # 0 =>
                      /\ current_where_'[depth] = where - 1
                      /\ bytecodes_[bytecodes_offsets_[current_which_[depth] + 1]
                                      + where] >= BOUND_DICTIONARY
                      /\ IF segment_length(P, post) = 0
                           THEN recursion_current_depth_' = depth
                           ELSE /\ recursion_current_depth_' = depth + 1
                                /\ current_which_'[depth + 1] = post
                                /\ current_where_'[depth + 1] = 0 ]_vars
  /\ []((/\ Len(tokenized_) = 9
         /\ tokenized_[2] = "begin" /\ tokenized_[4] = "while"
         /\ is_ready_ /\ recursion_current_depth_ = 0
         /\ current_error_ = "none")
          => stack(M) = [k \in 1..is_integer(tokenized_[1]).value |-> 7]
                          \o <<0, 9>>)

\* the loop ran its post part twice and the program went on behind it
RepeatedTwiceThenWentOn ==
  /\ source_ = "2 begin dup while 1- 7 swap repeat 9"
  /\ op_ = "run"
  /\ current_error_ = "none"
  /\ stack(M) = <<7, 7, 0, 9>>

(***************************************************************************)
(* C31: `if A then` and `if A else B then` pop one predicate and execute   *)
(* exactly one path: A once when the predicate is nonzero; nothing (for    *)
(* if/then) or B once (for if/else/then) when it is zero; afterwards       *)
(* execution continues with the instruction following `then`.  In the      *)
(* programs A pushes 7, B pushes 8 and the instruction after `then`        *)
(* pushes 9.                                                               *)
(***************************************************************************)
IfTakesExactlyOnePath ==
  /\ [][ LET depth == recursion_current_depth_
             where == current_where_[depth]
             length == segment_length(P, current_which_[depth])
             consequent == OperandHere - BOUND_DICTIONARY
         IN /\ (/\ op_' = "step" /\ current_error_ = "none"
                /\ StandsAt(CODE_IF) /\ stack_depth_ > 0)
                 => /\ current_error_' = "none"
                    /\ stack(M)' = SubSeq(stack(M), 1, stack_depth_ - 1)
                    /\ (stack_top(M) # 0) =>
                         /\ recursion_current_depth_' = depth
                         /\ current_where_'[depth] = where + 1
                         /\ OperandHere >= BOUND_DICTIONARY
                    /\ (stack_top(M) = 0 /\ where + 2 < length) =>
                         /\ recursion_current_depth_' = depth
                         /\ current_where_'[depth] = where + 2
            /\ (/\ op_' = "step" /\ current_error_ = "none"
                /\ StandsAt(CODE_IF_ELSE) /\ stack_depth_ > 0
                /\ depth < RecursionMaxDepth)
                 => /\ current_error_' = "none"
                    /\ stack(M)' = SubSeq(stack(M), 1, stack_depth_ - 1)
                    /\ (stack_top(M) # 0 /\ segment_length(P, consequent) > 0)
                         => /\ recursion_current_depth_' = depth + 1
                            /\ current_which_'[depth + 1] = consequent
                            /\ current_where_'[depth + 1] = 0
                            /\ current_where_'[depth] = where + 3
                    /\ (stack_top(M) = 0) =>
                         /\ recursion_current_depth_' = depth
                         /\ current_where_'[depth] = where + 2
                         /\ bytecodes_[bytecode_position(P, M) + 3]
                              >= BOUND_DICTIONARY ]_vars
  /\ []((/\ Len(tokenized_) \in {5, 7}
         /\ tokenized_[2] = "if" /\ tokenized_[Len(tokenized_)] = "9"
         /\ is_ready_ /\ recursion_current_depth_ = 0
         /\ current_error_ = "none")
          => stack(M) =
               (IF tokenized_[1] # "0" THEN <<7>>
                ELSE IF Len(tokenized_) = 7 THEN <<8>> ELSE <<>>) \o <<9>>)

\* a zero predicate took the alternate alone and the program went on
TookTheAlternateAlone ==
  /\ source_ = "0 if 7 else 8 then 9"
  /\ op_ = "step"
  /\ recursion_current_depth_ = 0
  /\ current_error_ = "none"
  /\ stack(M) = <<8, 9>>

(***************************************************************************)
(* C32: after a `halt`, when the invoking run, step, resume or call has    *)
(* returned, the recursion and do-loop stacks are empty and the            *)
(* recursion_target_depth stack is empty too: CODE_HALT leaves its         *)
(* sentinel 0, which equals the recursion depth 0, and the invoking call   *)
(* pops it.                                                                *)
(***************************************************************************)
HaltEmptiesTheTargetStack ==
  (current_error_ = "user_halt" /\ ~undefined_) =>
     /\ ~is_ready_
     /\ recursion_current_depth_ = 0
     /\ do_current_depth_ = 0
     /\ recursion_target_depth_ = <<>>

(* C32 as stated: after a `halt` the recursion_target_depth stack still    *)
(* holds exactly its sentinel entry, while the recursion and do-loop       *)
(* stacks are empty.                                                       *)
HaltKeepsTheSentinel ==
  (current_error_ = "user_halt" /\ ~undefined_) =>
     /\ recursion_current_depth_ = 0
     /\ do_current_depth_ = 0
     /\ recursion_target_depth_ = <<0>>

\* a word called from the outside has halted the machine
HaltedInCalledWord ==
  /\ op_ = "call"
  /\ current_error_ = "user_halt"
  /\ found_ = "none"
  /\ recursion_target_depth_ = <<>>

(***************************************************************************)
(* C34: for every token the tokenizer produces, the recorded line is 1     *)
(* plus the number of newline characters before the token and the recorded *)
(* column is the 0-based offset of the token's first character within its  *)
(* line, on the first line and on every later line alike.  The tokens      *)
(* start where a newline stands and where a character that is neither      *)
(* blank nor newline follows the start of the text, a blank or a newline.  *)
(***************************************************************************)
TokenStarts(src) ==
  { i \in 0..(Len(src) - 1) :
      \/ CharAt(src, i) = "\n"
      \/ /\ CharAt(src, i) \notin {" ", "\r", "\t", "\f"}
         /\ i = 0 \/ CharAt(src, i - 1) \in {" ", "\r", "\t", "\f", "\n"} }

NewlinesBefore(src, i) == { j \in 0..(i - 1) : CharAt(src, j) = "\n" }

LineOf(src, i) == 1 + Cardinality(NewlinesBefore(src, i))

ColumnOf(src, i) ==
  IF NewlinesBefore(src, i) = {} THEN i
  ELSE i - 1 - (CHOOSE j \in NewlinesBefore(src, i) :
                  \A k \in NewlinesBefore(src, i) : k <= j)

TokensCarryLineAndColumn ==
  LET starts == TokenStarts(source_)
      linecol == tokenize(source_).linecol
  IN /\ Len(linecol) = Cardinality(starts)
     /\ \A i \in starts :
          linecol[1 + Cardinality({j \in starts : j < i})]
            = <<LineOf(source_, i), ColumnOf(source_, i)>>

(* C34 on the first line alone: a token before the first newline carries   *)
(* line 1 and the 0-based offset of its first character.                   *)
TokensOfFirstLineCarryOffset ==
  LET starts == TokenStarts(source_)
      linecol == tokenize(source_).linecol
  IN /\ Len(linecol) = Cardinality(starts)
     /\ \A i \in starts :
          (NewlinesBefore(source_, i) = {} /\ CharAt(source_, i) # "\n") =>
             linecol[1 + Cardinality({j \in starts : j < i})] = <<1, i>>

(***************************************************************************)
(* C33: for every compiled program, walking each segment from its start    *)
(* offset with bytecodes_per_instruction visits exactly the instruction    *)
(* start positions the compiler emitted and lands exactly on the segment's *)
(* end offset; an operand slot is never decoded as an opcode, and the      *)
(* value of an operand (7, 8 or 9, say) never changes the width of the     *)
(* instruction that owns it.  The compiler emits one slot for a word, two  *)
(* for an opcode with one operand and for `body again|until`, three for    *)
(* CODE_IF_ELSE, for `pre while post` and for a typed read or write that   *)
(* is not direct.                                                          *)
(***************************************************************************)
EmittedWidth(pos) ==
  LET bytecode == bytecodes_[pos + 1]
      next_bytecode == IF pos + 1 < Len(bytecodes_) THEN bytecodes_[pos + 2]
                                                    ELSE 0
  IN IF bytecode < 0 THEN (IF (-bytecode - 1) % 2 = 1 THEN 3 ELSE 2)
     ELSE IF bytecode >= BOUND_DICTIONARY
       THEN (IF next_bytecode = CODE_WHILE THEN 3
             ELSE IF next_bytecode \in {CODE_AGAIN, CODE_UNTIL} THEN 2
             ELSE 1)
     ELSE IF bytecode = CODE_IF_ELSE THEN 3
     ELSE IF bytecode \in { CODE_LITERAL, CODE_IF, CODE_DO, CODE_DO_STEP,
                            CODE_EXIT, CODE_PUT, CODE_INC, CODE_GET,
                            CODE_LEN_INPUT, CODE_POS, CODE_END, CODE_SEEK,
                            CODE_SKIP, CODE_WRITE, CODE_LEN_OUTPUT,
                            CODE_REWIND } THEN 2
     ELSE 1

RECURSIVE EmittedFrom(_, _)
\* the positions of the instructions emitted from pos up to the end, and
\* the position reached behind them
EmittedFrom(pos, end) ==
  IF pos >= end THEN {pos}
  ELSE {pos} \cup EmittedFrom(pos + EmittedWidth(pos), end)

RECURSIVE WalkedFrom(_, _)
\* the positions the walk with bytecodes_per_instruction visits
WalkedFrom(pos, end) ==
  IF pos >= end THEN {pos}
  ELSE {pos} \cup WalkedFrom(pos + bytecodes_per_instruction(P, pos), end)

\* an operand slot of segment k holds the number of a loop opcode
OperandIsLoopCode(k) ==
  \E pos \in bytecodes_offsets_[k]..(bytecodes_offsets_[k + 1] - 1) :
    /\ pos \notin EmittedFrom(bytecodes_offsets_[k], bytecodes_offsets_[k + 1])
    /\ bytecodes_[pos + 1] \in {CODE_AGAIN, CODE_UNTIL, CODE_WHILE}

WalkVisitsTheInstructions ==
  op_ = "new" =>
    \A k \in 1..(Len(bytecodes_offsets_) - 1) :
      LET start == bytecodes_offsets_[k]
          end == bytecodes_offsets_[k + 1]
      IN /\ end \in EmittedFrom(start, end)
         /\ WalkedFrom(start, end) = EmittedFrom(start, end)

(* C33 for the segments none of whose operands is 7, 8 or 9: there the     *)
(* walk visits exactly the instructions and lands on the end offset.       *)
WalkVisitsTheInstructionsWithoutLoopCodes ==
  op_ = "new" =>
    \A k \in 1..(Len(bytecodes_offsets_) - 1) :
      LET start == bytecodes_offsets_[k]
          end == bytecodes_offsets_[k + 1]
      IN /\ end \in EmittedFrom(start, end)
         /\ ~OperandIsLoopCode(k) =>
              WalkedFrom(start, end) = EmittedFrom(start, end)

(***************************************************************************)
(* C35: step() and resume() on a machine that has not begun (or was reset) *)
(* return not_ready, and on a machine whose program has run to completion  *)
(* return is_done; in both cases no instruction executes and the data      *)
(* stack, variables and outputs are unchanged.                             *)
(***************************************************************************)
SteppingNeedsALiveProgram ==
  [][ (op_' \in {"step", "resume"}
         /\ (~is_ready_ \/ recursion_current_depth_ = 0))
        => /\ current_error_' = IF ~is_ready_ THEN "not_ready" ELSE "is_done"
           /\ stack(M)' = stack(M)
           /\ UNCHANGED <<variables_, current_outputs_, current_inputs_,
                          count_instructions_, count_reads_, count_writes_,
                          is_ready_, recursion_current_depth_,
                          do_current_depth_>> ]_vars

\* resume was refused on a machine whose program had run to its end
ResumeRefusedWhenDone ==
  /\ op_ = "resume"
  /\ current_error_ = "is_done"
  /\ found_ = "none"
  /\ is_ready_
  /\ stack_depth_ > 0

\* step was refused on a machine that had been reset after a run
StepRefusedAfterReset ==
  /\ op_ = "step"
  /\ current_error_ = "not_ready"
  /\ found_ = "none"
  /\ count_instructions_ > 0
  /\ stack_depth_ = 0

(***************************************************************************)
(* C36: an instruction that fails with stack_underflow, stack_overflow,    *)
(* division_by_zero or recursion_depth_exceeded leaves the data stack,     *)
(* depth and contents, exactly as it was before that instruction: no       *)
(* operand has been consumed and no partial result has been pushed.        *)
(***************************************************************************)
FailedInstructionKeepsTheStack ==
  [][ (/\ op_' \in {"step", "resume", "call"}
       /\ current_error_ = "none" /\ is_ready_
       /\ count_instructions_' = count_instructions_
       /\ current_error_' \in {"stack_underflow", "stack_overflow",
                               "division_by_zero",
                               "recursion_depth_exceeded"})
        => stack(M)' = stack(M) ]_vars

(* C36 for stack_underflow alone: every handler tests the depth of the     *)
(* stack before it pops, so the instruction that underflows leaves the     *)
(* stack as it was.                                                        *)
UnderflowKeepsTheStack ==
  [][ (/\ op_' \in {"step", "resume", "call"}
       /\ current_error_ = "none" /\ is_ready_
       /\ count_instructions_' = count_instructions_
       /\ current_error_' = "stack_underflow")
        => stack(M)' = stack(M) ]_vars

BeginStartsTheSameSession ==
  /\ [][ (op_' = "begin" /\ is_ready_') =>
           /\ stack(M)' = <<>>
           /\ \A n \in DOMAIN variables_' : variables_'[n] = 0
           /\ DOMAIN variables_' = DOMAIN variables_
           /\ current_error_' = "none"
           /\ ~is_done(M)'
           /\ recursion_current_depth_' = 1
           /\ bytecodes_pointer_which(M)' = 0
           /\ bytecodes_pointer_where(M)' = 0
           /\ do_current_depth_' = 0
           /\ recursion_target_depth_' = <<0>>
           /\ current_outputs_' = [n \in 1..Len(output_names_) |-> <<>>]
           /\ \A n \in 1..Len(current_inputs_') : current_inputs_'[n].pos = 0
           /\ M' = [begin(P, constructed(Len(variable_names_)), inputs_')
                      EXCEPT !.count_instructions_ = count_instructions_,
                             !.count_reads_ = count_reads_,
                             !.count_writes_ = count_writes_] ]_vars
  /\ [][ (op_ = "run" /\ op_' = "run" /\ input_names_ = <<>>) =>
           /\ stack(M)' = stack(M)
           /\ UNCHANGED <<variables_, current_outputs_, current_error_,
                          is_ready_, recursion_current_depth_,
                          current_which_, current_where_,
                          do_current_depth_, recursion_target_depth_>> ]_vars

\* begin() on a machine that was paused inside the body of a do-loop
BegunAgainFromInsideLoop ==
  /\ op_ = "begin"
  /\ is_ready_
  /\ source_ = ": w 7 drop ; 3 0 do i pause loop"
  /\ count_instructions_ >= 4
  /\ recursion_current_depth_ = 1

(***************************************************************************)
(* Layout builders (src/awkward/_v2/cpp-headers/awkward/LayoutBuilder.h):  *)
(* ListOffset, Regular and BitMasked over a Numpy content.  A buffer       *)
(* (GrowableBuffer) is the sequence of the values appended to it.          *)
(***************************************************************************)
\* the calls made on one builder of the model: enough for a BitMasked
\* builder to fill the first byte of its mask and begin the second
MaxCalls == 9

\* the values a caller appends to the content
Items == {5}

\* template argument SIZE of the Regular builder of the model
SIZE == 2
\* template arguments VALID_WHEN and LSB_ORDER of the BitMasked builder
VALID_WHEN == TRUE
LSB_ORDER == TRUE

\* GrowableBuffer::append, clear, length and last
GrowableBuffer_append(buffer, x) == Append(buffer, x)
GrowableBuffer_clear == <<>>
GrowableBuffer_length(buffer) == Len(buffer)
GrowableBuffer_last(buffer) == buffer[Len(buffer)]

\* Numpy: the content of the builders of the model
Numpy == <<>>
Numpy_append(data, x) == GrowableBuffer_append(data, x)
Numpy_clear(data) == GrowableBuffer_clear
Numpy_length(data) == GrowableBuffer_length(data)
Numpy_is_valid(data) == TRUE

\* ListOffset(): the offsets begin with 0
ListOffset ==
  [kind |-> "ListOffset",
   offsets_ |-> GrowableBuffer_append(<<>>, 0),
   content_ |-> Numpy]

\* end_list with the number of lists in place of the content's length
ListOffset_end_list_counting_lists(b) ==
  [b EXCEPT !.offsets_ =
     GrowableBuffer_append(@, GrowableBuffer_length(b.offsets_))]

ListOffset_end_list(b) ==
  [b EXCEPT !.offsets_ = GrowableBuffer_append(@, Numpy_length(b.content_))]

ListOffset_clear(b) ==
  [b EXCEPT !.offsets_ = GrowableBuffer_append(GrowableBuffer_clear, 0),
            !.content_ = Numpy_clear(@)]

ListOffset_length(b) == GrowableBuffer_length(b.offsets_) - 1

ListOffset_is_valid(b) ==
  IF Numpy_length(b.content_) # GrowableBuffer_last(b.offsets_)
    THEN FALSE
    ELSE Numpy_is_valid(b.content_)

\* Regular(): no list yet
Regular ==
  [kind |-> "Regular", content_ |-> Numpy, length_ |-> 0, size_ |-> SIZE]

Regular_end_list(b) == [b EXCEPT !.length_ = @ + 1]

\* clear() empties the content; length_ is not assigned
Regular_clear(b) == [b EXCEPT !.content_ = Numpy_clear(@)]

Regular_length(b) == b.length_

Regular_is_valid(b) ==
  IF Numpy_length(b.content_) # b.length_ * b.size_
    THEN FALSE
    ELSE Numpy_is_valid(b.content_)

\* cast_[i], as the constructor fills it
cast_(i) == IF LSB_ORDER THEN Pow2(i) ELSE 128 \div Pow2(i)

\* a | bit on uint8_t, bit being a power of two
byte_or(a, bit) == IF (a \div bit) % 2 = 1 THEN a ELSE a + bit

\* an assignment through current_byte_ref_: the reference is bound once, by
\* the constructor, to the first byte of the mask; when the mask no longer
\* has that byte the write is to memory the buffer has given up
assign_current_byte_ref(b, x) ==
  IF b.current_byte_ref_ <= GrowableBuffer_length(b.mask_)
    THEN [b EXCEPT !.mask_[b.current_byte_ref_] = x]
    ELSE [b EXCEPT !.undefined_ = TRUE]

\* BitMasked(): one byte in the mask, current_byte_ref_ bound to it
BitMasked ==
  [kind |-> "BitMasked",
   mask_ |-> GrowableBuffer_append(<<>>, 0),
   content_ |-> Numpy,
   current_byte_ |-> 0,
   current_byte_ref_ |-> 1,
   current_index_ |-> 0,
   undefined_ |-> FALSE]

append_begin(b) ==
  IF b.current_index_ = 8
    THEN LET appended ==
               [b EXCEPT !.mask_ = GrowableBuffer_append(@, b.current_byte_)]
         IN [assign_current_byte_ref(appended, b.current_byte_)
               EXCEPT !.current_byte_ = 0, !.current_index_ = 0]
    ELSE b

append_end(b) ==
  LET counted == [b EXCEPT !.current_index_ = @ + 1]
  IN IF VALID_WHEN
       THEN assign_current_byte_ref(counted, b.current_byte_)
       ELSE assign_current_byte_ref(counted, 255 - b.current_byte_)

BitMasked_append_valid(b) ==
  LET begun == append_begin(b)
  IN append_end([begun EXCEPT !.current_byte_ =
                   byte_or(@, cast_(begun.current_index_))])

BitMasked_append_null(b) == append_end(append_begin(b))

\* clear() empties the mask and the content; current_byte_ and
\* current_index_ are not assigned, and no byte is appended to the mask
BitMasked_clear(b) ==
  [b EXCEPT !.mask_ = GrowableBuffer_clear, !.content_ = Numpy_clear(@)]

\* length() computes in size_t; a negative number here stands for the
\* size_t that is 2^64 larger
BitMasked_length(b) ==
  (GrowableBuffer_length(b.mask_) - 1) * 8 + b.current_index_

BitMasked_is_valid(b) ==
  IF Numpy_length(b.content_) # BitMasked_length(b)
    THEN FALSE
    ELSE Numpy_is_valid(b.content_)

\* a new builder of a class
Builders == { ListOffset, Regular, BitMasked }

\* length(), is_valid() and clear() of a builder
length(b) ==
  CASE b.kind = "ListOffset" -> ListOffset_length(b)
    [] b.kind = "Regular" -> Regular_length(b)
    [] b.kind = "BitMasked" -> BitMasked_length(b)

is_valid(b) ==
  CASE b.kind = "ListOffset" -> ListOffset_is_valid(b)
    [] b.kind = "Regular" -> Regular_is_valid(b)
    [] b.kind = "BitMasked" -> BitMasked_is_valid(b)

clear(b) ==
  CASE b.kind = "ListOffset" -> ListOffset_clear(b)
    [] b.kind = "Regular" -> Regular_clear(b)
    [] b.kind = "BitMasked" -> BitMasked_clear(b)

\* one call on a builder; begin_list() only returns the content, and an
\* append is made on the content a begin_list or append_* has returned
applied(b, c) ==
  CASE c.call = "begin_list" -> b
    [] c.call = "append" -> [b EXCEPT !.content_ = Numpy_append(@, c.x)]
    [] c.call = "end_list" ->
         IF b.kind = "ListOffset" THEN ListOffset_end_list(b)
                                  ELSE Regular_end_list(b)
    [] c.call = "append_valid" -> BitMasked_append_valid(b)
    [] c.call = "append_null" -> BitMasked_append_null(b)
    [] c.call = "clear" -> clear(b)

\* the builder has written through a reference to a byte it gave up
builder_undefined(b) == b.kind = "BitMasked" /\ b.undefined_

BuilderCalled(c) ==
  /\ ~builder_undefined(builder_)
  /\ clock_ < MaxCalls
  /\ builder_' = applied(builder_, c)
  /\ calls_' = IF c.call = "clear" THEN <<>> ELSE Append(calls_, c)
  /\ op_' = c.call
  /\ clock_' = clock_ + 1
  /\ UNCHANGED <<program_vars, machine_vars, found_, index_, inputs_, mode_>>

BeginList ==
  /\ builder_.kind \in {"ListOffset", "Regular"}
  /\ BuilderCalled([call |-> "begin_list", x |-> 0])

ContentAppend ==
  /\ builder_.kind # "none"
  /\ \E x \in Items : BuilderCalled([call |-> "append", x |-> x])

EndList ==
  /\ builder_.kind \in {"ListOffset", "Regular"}
  /\ BuilderCalled([call |-> "end_list", x |-> 0])

AppendValid ==
  /\ builder_.kind = "BitMasked"
  /\ BuilderCalled([call |-> "append_valid", x |-> 0])

AppendNull ==
  /\ builder_.kind = "BitMasked"
  /\ BuilderCalled([call |-> "append_null", x |-> 0])

Clear ==
  /\ builder_.kind # "none"
  /\ BuilderCalled([call |-> "clear", x |-> 0])

NextBuilders ==
  BeginList \/ ContentAppend \/ EndList \/ AppendValid \/ AppendNull \/ Clear

\* a new builder; no machine runs beside it
InitBuilders ==
  /\ InitFrom({""})
  /\ builder_ \in Builders
  /\ calls_ = <<>>

SpecBuilders == InitBuilders /\ [][NextBuilders]_vars

\* the builder that a new one becomes by the calls
RECURSIVE Replay(_, _)
Replay(b, cs) ==
  IF cs = <<>> THEN b ELSE Replay(applied(b, Head(cs)), Tail(cs))

\* a new builder of the class of b
NewLike(b) == CHOOSE n \in Builders : n.kind = b.kind

\* the calls of one name among the first n of the calls
CallsAmong(cs, name, n) ==
  Cardinality({ i \in 1..n : cs[i].call = name })

\* the place of the k-th end_list among the calls
PlaceOfEnd(cs, k) ==
  CHOOSE i \in 1..Len(cs) :
    cs[i].call = "end_list" /\ CallsAmong(cs, "end_list", i) = k

(* C40: a ListOffset builder, after any begin_list, append and end_list    *)
(* calls since it was new or cleared: the offsets start with 0 and never   *)
(* decrease, length() is the number of end_list calls, the offset each     *)
(* end_list appended is the number of items the content had at that call,  *)
(* and is_valid() holds exactly when the content's length is the last      *)
(* offset, which is exactly when no item was appended after the last       *)
(* end_list.                                                               *)
ListOffsetKeepsItsOffsets ==
  builder_.kind = "ListOffset" =>
    LET offsets == builder_.offsets_
        ends == CallsAmong(calls_, "end_list", Len(calls_))
    IN /\ offsets[1] = 0
       /\ \A k \in 1..(Len(offsets) - 1) : offsets[k] <= offsets[k + 1]
       /\ length(builder_) = ends
       /\ Len(offsets) = ends + 1
       /\ \A k \in 1..ends :
            offsets[k + 1] = CallsAmong(calls_, "append", PlaceOfEnd(calls_, k))
       /\ is_valid(builder_)
            <=> Len(builder_.content_) = offsets[Len(offsets)]
       /\ is_valid(builder_)
            <=> CallsAmong(calls_, "append", Len(calls_)) = offsets[Len(offsets)]

\* two lists are closed, the second one empty, and a third is left open
\* with one item
OpenListIsInvalid ==
  /\ builder_.kind = "ListOffset"
  /\ builder_.offsets_ = <<0, 2, 2>>
  /\ Len(builder_.content_) = 3
  /\ op_ = "append"
  /\ length(builder_) = 2
  /\ ~is_valid(builder_)

(* C39: clear() after any calls brings a builder of every class back to    *)
(* the state of a new one: right after clear() length() is 0 and           *)
(* is_valid() holds, and after the calls made since, length() and          *)
(* is_valid() are what a new builder gives after the same calls.           *)
ClearGivesANewBuilder ==
  (builder_.kind # "none" /\ ~builder_undefined(builder_)) =>
    /\ op_ = "clear" => (length(builder_) = 0 /\ is_valid(builder_))
    /\ length(builder_) = length(Replay(NewLike(builder_), calls_))
    /\ is_valid(builder_) <=> is_valid(Replay(NewLike(builder_), calls_))

\* the same of the ListOffset builder alone
ClearGivesANewListOffset ==
  builder_.kind = "ListOffset" =>
    /\ op_ = "clear" => (length(builder_) = 0 /\ is_valid(builder_))
    /\ builder_ = Replay(ListOffset, calls_)

\* a Regular builder was cleared after a list, and refilled with one list
RegularRefilledAfterClear ==
  /\ builder_.kind = "Regular"
  /\ Len(calls_) = 3
  /\ calls_[3].call = "end_list"
  /\ Len(builder_.content_) = 2
  /\ builder_.length_ = 2

\* a BitMasked builder has begun the second byte of its mask
SecondByteBegun ==
  /\ builder_.kind = "BitMasked"
  /\ Len(builder_.mask_) = 2
  /\ builder_.current_index_ = 1
  /\ length(builder_) = 9

\* a cleared BitMasked builder is appended to
BitMaskedWritesAfterClear ==
  /\ builder_.kind = "BitMasked"
  /\ builder_.mask_ = <<>>
  /\ builder_.undefined_

====
